---- MODULE Spec2Model ----
(***************************************************************************)
(* A model of the RevivaTech NLU matching and ranking pipeline:            *)
(*   - EnhancedDeviceMatcher   (device_matcher.py)                         *)
(*   - KnowledgeBaseService    (knowledge_base_service.py)                 *)
(*   - RevivaTechEnhancedNLU   (nlu_service_enhanced.py)                   *)
(*   - RevivaTechPhase3NLU     (nlu_service_phase3.py, nlu_api_phase3.py)  *)
(*                                                                         *)
(* Every confidence and score is an integer number of thousandths          *)
(* (0.95 is 950).  External collaborators (the regular-expression engine,  *)
(* fuzzywuzzy, the two user-agent parsers, PostgreSQL) are tables of the   *)
(* answers they give on the inputs of the model.                           *)
(***************************************************************************)
EXTENDS Integers, Sequences, FiniteSets, TLC

VARIABLES
    \* ---- EnhancedDeviceMatcher, one instance, sequential use ----
    cache,        \* self.cache: sequence of [key, val, age], oldest first
    wtext,        \* the message of the match_device_hybrid calls observed
    wua,          \* the user agent of the match_device_hybrid calls observed
    ncalls,       \* number of match_device_hybrid calls made so far (capped)
    first,        \* {what the first match_device_hybrid call returned}
    last,         \* {the latest match_device_hybrid call: its matches, its result}
    \* ---- EnhancedDeviceMatcher, one instance, two threads ----
    thr,          \* thread -> [op, input, pc, pending, res] of its call
    detector,     \* self.device_detector: [ua, parsed]
    \* ---- KnowledgeBaseService and its PostgreSQL store ----
    store,        \* the rows of repair_procedures
    dbUp,         \* whether the server answers
    connection,   \* self.connection: "none", "open" or "broken"
    kpc,          \* where search_procedures stands
    kquery,       \* {the device_info / problem_info / message searched for}
    exact,        \* exact_results
    fuzzy,        \* fuzzy_results
    generic,      \* generic_results
    qlast,        \* {the latest _execute_query call: what it did}
    out,          \* {what the latest search_procedures call returned}
    nsearch,      \* number of searches finished (capped)
    \* ---- RevivaTechPhase3NLU, one request ----
    pipe,         \* the request: its stage, the faults met, its result
    \* ---- single calls of one method ----
    nlu,          \* process_message_enhanced: its message, header and result
    qm,           \* _score_quality_metrics: its procedure and its score
    \* ---- MLRecommendationService, one personalized pass ----
    mlpass,       \* the pass: its store, request, candidates and scores
    \* ---- RevivaTechPhase3NLU, the counters of one instance ----
    perf          \* total_queries, knowledge_base_hits and the two lists

matcherVars == <<cache, wtext, wua, ncalls, first, last>>
raceVars == <<thr, detector>>
kbVars == <<store, dbUp, connection, kpc, kquery, exact, fuzzy, generic,
            qlast, out, nsearch>>

unitVars == <<nlu, qm, mlpass, perf>>

vars == <<cache, wtext, wua, ncalls, first, last, thr, detector,
          store, dbUp, connection, kpc, kquery, exact, fuzzy, generic,
          qlast, out, nsearch, pipe, nlu, qm, mlpass, perf>>

None == "None"

Min(a, b) == IF a <= b THEN a ELSE b
Max(a, b) == IF a >= b THEN a ELSE b

-----------------------------------------------------------------------------
(***************************************************************************)
(* DeviceMatch (device_matcher.py:20-28).  raw_data is left out: no claim  *)
(* reads it.                                                               *)
(***************************************************************************)
DeviceMatch(brand, model, type, confidence, source) ==
    [brand |-> brand, model |-> model, type |-> type,
     confidence |-> confidence, source |-> source]

\* DeviceMatch("Unknown", "Unknown Model", "Unknown Device", 0.1, source)
UnknownDevice(source) ==
    DeviceMatch("Unknown", "Unknown Model", "Unknown Device", 100, source)

\* ua_match = None (device_matcher.py:377): no user-agent match was made.
NoMatch == DeviceMatch(None, None, None, 0, None)

(***************************************************************************)
(* The messages of the model.  TextLower is str.lower().                   *)
(***************************************************************************)
Texts ==
    { "My iPhone 14 Pro screen is cracked",
      "MY IPHONE 14 PRO SCREEN IS CRACKED",
      "Samsung Galaxy S24 battery issues",
      "galaxy s 24 dead",
      "iphone14 broken",
      "oneplus   12 slow",
      "galaxy  s  24",
      "my imac is slow",
      "samsung phone broken",
      "my phone is broken",
      "my iphone   14 broken",
      "galaxy  s  24 and huawei    p    30" }

TextLower(t) ==
    CASE t = "My iPhone 14 Pro screen is cracked" -> "my iphone 14 pro screen is cracked"
      [] t = "MY IPHONE 14 PRO SCREEN IS CRACKED" -> "my iphone 14 pro screen is cracked"
      [] t = "Samsung Galaxy S24 battery issues"  -> "samsung galaxy s24 battery issues"
      [] OTHER -> t

\* self.device_patterns: the brands in dictionary order and the number of
\* patterns of each (device_matcher.py:60-171).
PatternBrands == <<"apple", "samsung", "google", "huawei", "oneplus">>
PatternCount == <<4, 3, 1, 1, 1>>

(***************************************************************************)
(* What re.search and process.extractOne(scorer=fuzz.partial_ratio) answer *)
(* on a lower-cased message: for brand b's p-th pattern, whether it        *)
(* matched with a non-empty model list, the best model and its score, and  *)
(* possible_models[0].  Computed with the patterns of device_matcher.py    *)
(* and fuzzywuzzy's difflib backend.                                       *)
(***************************************************************************)
Hit(b, p, score, model, firstModel) ==
    [b |-> b, p |-> p, score |-> score, model |-> model, firstModel |-> firstModel]

PatternHits(tl) ==
    CASE tl = "my iphone 14 pro screen is cracked" -> {Hit(1, 1, 100, "iPhone 14", "iPhone 14")}
      [] tl = "samsung galaxy s24 battery issues"  -> {Hit(2, 1, 100, "Galaxy S24", "Galaxy S24")}
      [] tl = "galaxy s 24 dead"                   -> {Hit(2, 1, 90, "Galaxy S24", "Galaxy S24")}
      [] tl = "iphone14 broken"                    -> {Hit(1, 1, 89, "iPhone 14", "iPhone 14")}
      [] tl = "oneplus   12 slow"                  -> {Hit(5, 1, 82, "OnePlus 12R", "OnePlus 12")}
      [] tl = "galaxy  s  24"                      -> {Hit(2, 1, 80, "Galaxy S24", "Galaxy S24")}
      [] tl = "my imac is slow"                    -> {Hit(1, 4, 71, "iMac 24", "iMac 21.5")}
      [] tl = "my iphone   14 broken"              -> {Hit(1, 1, 78, "iPhone 14", "iPhone 14")}
      [] tl = "galaxy  s  24 and huawei    p    30" ->
             {Hit(2, 1, 80, "Galaxy S24", "Galaxy S24"),
              Hit(4, 1, 70, "Huawei P30", "Huawei P30")}
      [] OTHER -> {}

\* _detect_brand (device_matcher.py:483-489): the first brand of
\* self.brand_aliases one of whose aliases is a substring of the text.
DetectBrand(tl) ==
    CASE tl = "my iphone 14 pro screen is cracked" -> "apple"
      [] tl = "samsung galaxy s24 battery issues"  -> "samsung"
      [] tl = "galaxy s 24 dead"                   -> "samsung"
      [] tl = "iphone14 broken"                    -> "apple"
      [] tl = "oneplus   12 slow"                  -> "oneplus"
      [] tl = "galaxy  s  24"                      -> "samsung"
      [] tl = "my imac is slow"                    -> "apple"
      [] tl = "samsung phone broken"               -> "samsung"
      [] tl = "my iphone   14 broken"              -> "apple"
      [] tl = "galaxy  s  24 and huawei    p    30" -> "samsung"
      [] OTHER -> None

\* process.extractOne(text, all_models, scorer=fuzz.partial_ratio) over every
\* model of the brand (device_matcher.py:500).
FuzzyBest(tl) ==
    CASE tl = "my iphone 14 pro screen is cracked" -> [model |-> "iPhone 14", score |-> 100]
      [] tl = "samsung galaxy s24 battery issues"  -> [model |-> "Galaxy S24", score |-> 100]
      [] tl = "galaxy s 24 dead"                   -> [model |-> "Galaxy S20", score |-> 90]
      [] tl = "iphone14 broken"                    -> [model |-> "iPhone 14", score |-> 89]
      [] tl = "oneplus   12 slow"                  -> [model |-> "OnePlus 6", score |-> 89]
      [] tl = "galaxy  s  24"                      -> [model |-> "Galaxy S7", score |-> 89]
      [] tl = "my imac is slow"                    -> [model |-> "iMac 24", score |-> 71]
      [] tl = "samsung phone broken"               -> [model |-> "Galaxy Note 8", score |-> 38]
      [] tl = "my iphone   14 broken"              -> [model |-> "iPhone 6", score |-> 88]
      [] tl = "galaxy  s  24 and huawei    p    30" -> [model |-> "Galaxy S7", score |-> 89]
      [] OTHER -> [model |-> None, score |-> 0]

\* The oracle answers about one lower-cased message, as one record.
TextFeatures(tl) ==
    [hits |-> PatternHits(tl), alias |-> DetectBrand(tl), fuzzy |-> FuzzyBest(tl)]

\* str.title() on the brand keys.
Title(brand) ==
    CASE brand = "apple"   -> "Apple"
      [] brand = "samsung" -> "Samsung"
      [] brand = "google"  -> "Google"
      [] brand = "huawei"  -> "Huawei"
      [] brand = "oneplus" -> "Oneplus"
      [] OTHER -> brand

\* _determine_device_type (device_matcher.py:506-521) on the model names of
\* the model: the first keyword group one of whose terms the lower-cased
\* name contains.
DetermineDeviceType(model) ==
    CASE model \in {"iPhone 14", "iPhone 6", "Galaxy S24", "Galaxy S20", "Galaxy S7",
                    "Galaxy Note 8"} -> "Smartphone"
      [] model \in {"iMac 24", "iMac 21.5"} -> "Desktop"
      [] OTHER -> "Electronic Device"

-----------------------------------------------------------------------------
(***************************************************************************)
(* match_device_from_text (device_matcher.py:240-301), the part after the  *)
(* cache lookup.                                                           *)
(***************************************************************************)
\* Lines 264-275: the DeviceMatch built for an accepted pattern hit.
PatternMatch(h) ==
    DeviceMatch(Title(PatternBrands[h.b]), h.model, DetermineDeviceType(h.firstModel),
                Min(950, h.score * 10), "text_pattern")

\* Lines 253-276: the inner loop over one brand's patterns from pattern p on;
\* it ends at the first hit whose fuzzy score is above 60.
RECURSIVE ScanPatterns(_, _, _, _)
ScanPatterns(hits, b, p, best) ==
    IF p > PatternCount[b] THEN best
    ELSE LET hs == {h \in hits : h.b = b /\ h.p = p}
         IN  IF hs # {} /\ (CHOOSE h \in hs : TRUE).score > 60
             THEN PatternMatch(CHOOSE h \in hs : TRUE)
             ELSE ScanPatterns(hits, b, p + 1, best)

\* Lines 252-279: the outer loop over the brands from brand b on; it ends
\* after a brand that leaves best_match.confidence > 0.8.
RECURSIVE ScanBrands(_, _, _)
ScanBrands(hits, b, best) ==
    IF b > Len(PatternBrands) THEN best
    ELSE LET after == ScanPatterns(hits, b, 1, best)
         IN  IF after.confidence > 800 THEN after
             ELSE ScanBrands(hits, b + 1, after)

\* _extract_model_fuzzy (device_matcher.py:491-504).
ExtractModelFuzzy(f) ==
    IF f.fuzzy.model # None /\ f.fuzzy.score > 60 THEN f.fuzzy.model
    ELSE "Unknown Model"

\* A fallback that also replaces a pattern match of confidence exactly 0.8.
BrandFallbackAtBoundary(f, best) ==
    IF best.confidence <= 800 /\ f.alias # None
    THEN LET model == ExtractModelFuzzy(f)
         IN  DeviceMatch(Title(f.alias), model, DetermineDeviceType(model),
                         IF model # "Unknown Model" THEN 750 ELSE 500, "text_fuzzy")
    ELSE best

\* Lines 282-297: brand detection with fuzzy model matching.
BrandFallback(f, best) ==
    IF best.confidence < 800 /\ f.alias # None
    THEN LET model == ExtractModelFuzzy(f)
         IN  DeviceMatch(Title(f.alias), model, DetermineDeviceType(model),
                         IF model # "Unknown Model" THEN 750 ELSE 500, "text_fuzzy")
    ELSE best

\* Lines 249-297: best_match as it stands at line 299.
TextMatchOf(f) ==
    BrandFallback(f, ScanBrands(f.hits, 1, UnknownDevice("text")))

-----------------------------------------------------------------------------
(***************************************************************************)
(* The user-agent headers of the model.  "" stands for both None and the   *)
(* empty string: `if user_agent` and `if not user_agent` treat them alike. *)
(***************************************************************************)
NoHeader == ""

Headers ==
    { NoHeader,
      "Mozilla/5.0 (iPhone; CPU iPhone OS 16_0 like Mac OS X)",
      "Mozilla/5.0 (Linux; Android 14; SM-S921B)",
      "Mozilla/5.0 (Linux; Android 14; CPH2581)",
      "Mozilla/5.0 (Macintosh; Intel Mac OS X 10_15_7)",
      "curl/8.4.0",
      "%%%" }

(***************************************************************************)
(* What DeviceDetector(user_agent).parse() answers: whether it raises,     *)
(* is_mobile(), is_tablet(), get_brand(), get_model() ("" when falsy).     *)
(***************************************************************************)
Detected(raises, mobile, tablet, brand, model) ==
    [raises |-> raises, mobile |-> mobile, tablet |-> tablet,
     brand |-> brand, model |-> model]

DeviceDetectorParse(ua) ==
    CASE ua = "Mozilla/5.0 (iPhone; CPU iPhone OS 16_0 like Mac OS X)" ->
             Detected(FALSE, TRUE, FALSE, "Apple", "iPhone")
      [] ua = "Mozilla/5.0 (Linux; Android 14; SM-S921B)" ->
             Detected(FALSE, TRUE, FALSE, "Samsung", "Galaxy S24")
      [] ua = "Mozilla/5.0 (Linux; Android 14; CPH2581)" ->
             Detected(FALSE, TRUE, FALSE, "OnePlus", "12")
      [] ua = "%%%" -> Detected(TRUE, FALSE, FALSE, "", "")
      [] OTHER -> Detected(FALSE, FALSE, FALSE, "", "")

\* What user_agents.parse(user_agent).device answers ("" when falsy).
ParseUserAgent(ua) ==
    CASE ua = "Mozilla/5.0 (Macintosh; Intel Mac OS X 10_15_7)" ->
             [brand |-> "Apple", model |-> "Mac", family |-> "Mac"]
      [] OTHER -> [brand |-> "", model |-> "", family |-> "Other"]

\* f"{brand} {model}"
BrandModel(brand, model) == brand \o " " \o model

(***************************************************************************)
(* match_device_from_user_agent (device_matcher.py:313-368), the part      *)
(* after the cache lookup, reading the parse result d of the detector.     *)
(***************************************************************************)
\* Lines 318-336: the Matomo branch.
MatomoMatch(d) ==
    LET brand == IF d.brand # "" THEN d.brand ELSE "Unknown"
        model == IF d.model # "" THEN d.model ELSE "Unknown Model"
    IN  DeviceMatch(brand,
                    IF model # "Unknown Model" THEN BrandModel(brand, model) ELSE brand,
                    IF d.tablet THEN "Tablet" ELSE "Smartphone",
                    900, "user_agent_matomo")

\* Lines 342-356: the alternative parser's branch.
AlternativeMatch(a) ==
    DeviceMatch(a.brand, BrandModel(a.brand, a.model),
                IF a.family # "" THEN a.family ELSE "Unknown Device",
                800, "user_agent_alternative")

\* Lines 313-368: the result for a detector answer d and the user agent ua.
UaMatchFrom(d, ua) ==
    IF d.raises THEN UnknownDevice("user_agent")
    ELSE IF d.mobile \/ d.tablet THEN MatomoMatch(d)
    ELSE LET a == ParseUserAgent(ua)
         IN  IF a.brand # "" /\ a.model # "" THEN AlternativeMatch(a)
             ELSE UnknownDevice("user_agent")

UaMatchOf(ua) == UaMatchFrom(DeviceDetectorParse(ua), ua)

-----------------------------------------------------------------------------
(***************************************************************************)
(* _devices_match (device_matcher.py:523-530).                             *)
(***************************************************************************)
\* str.lower() on the brand and model names of the model.
Lower(s) ==
    CASE s = "Apple" -> "apple"
      [] s = "Samsung" -> "samsung"
      [] s = "Oneplus" -> "oneplus"
      [] s = "OnePlus" -> "oneplus"
      [] s = "Unknown" -> "unknown"
      [] s = "iPhone 14" -> "iphone 14"
      [] s = "Galaxy S24" -> "galaxy s24"
      [] s = "OnePlus 12" -> "oneplus 12"
      [] s = "OnePlus 12R" -> "oneplus 12r"
      [] s = "Apple iPhone" -> "apple iphone"
      [] s = "Samsung Galaxy S24" -> "samsung galaxy s24"
      [] s = "Apple Mac" -> "apple mac"
      [] s = "Smartphone" -> "smartphone"
      [] s = "Screen Damage" -> "screen damage"
      [] s = "Battery" -> "battery"
      [] OTHER -> s

\* fuzz.ratio on two lower-cased model names (fuzzywuzzy, difflib backend):
\* round(100 * 2 * matches / (len(a) + len(b))).
FuzzRatio(a, b) ==
    CASE a = b -> 100
      [] {a, b} = {"iphone 14", "apple iphone"} -> 57
      [] {a, b} = {"iphone 14", "samsung galaxy s24"} -> 22
      [] {a, b} = {"iphone 14", "oneplus 12"} -> 53
      [] {a, b} = {"iphone 14", "unknown"} -> 25
      [] {a, b} = {"iphone 14", "apple mac"} -> 33
      [] {a, b} = {"galaxy s24", "apple mac"} -> 32
      [] {a, b} = {"galaxy s24", "apple iphone"} -> 27
      [] {a, b} = {"galaxy s24", "samsung galaxy s24"} -> 71
      [] {a, b} = {"galaxy s24", "oneplus 12"} -> 30
      [] {a, b} = {"oneplus 12r", "oneplus 12"} -> 95
      [] {a, b} = {"oneplus 12r", "apple iphone"} -> 26
      [] {a, b} = {"oneplus 12r", "samsung galaxy s24"} -> 28
      [] OTHER -> 0

DevicesMatch(match1, match2) ==
    /\ Lower(match1.brand) = Lower(match2.brand)
    /\ FuzzRatio(Lower(match1.model), Lower(match2.model)) > 70

(***************************************************************************)
(* match_device_hybrid (device_matcher.py:383-447): the fusion of the text *)
(* match tm and the user-agent match um (NoMatch when no header was given).   *)
(***************************************************************************)
\* A fusion that takes the agreed device from the text match.
HybridPerfectFromText(tm, um) ==
    DeviceMatch(tm.brand, tm.model, tm.type,
                Min(980, (tm.confidence + um.confidence) \div 2 + 100),
                "hybrid_perfect")

\* Lines 388-401.
HybridPerfect(tm, um) ==
    DeviceMatch(um.brand, um.model, um.type,
                Min(980, (tm.confidence + um.confidence) \div 2 + 100),
                "hybrid_perfect")

\* A fusion that takes the conflict confidence from the user-agent match alone.
HybridConflictUaOnly(tm, um) ==
    DeviceMatch(um.brand, um.model, um.type, (um.confidence * 9) \div 10,
                "hybrid_conflict")

\* Lines 403-417.
HybridConflict(tm, um) ==
    DeviceMatch(um.brand, um.model, um.type,
                (Max(tm.confidence, um.confidence) * 9) \div 10,
                "hybrid_conflict")

\* An enhancement that takes the device from the user-agent match.
HybridTextEnhancedUa(tm, um) ==
    DeviceMatch(um.brand, um.model, um.type, tm.confidence + 50,
                "hybrid_text_enhanced")

\* An enhancement that lowers the text confidence by 0.05.
HybridTextDiluted(tm, um) ==
    DeviceMatch(tm.brand, tm.model, tm.type, tm.confidence - 50,
                "hybrid_text_enhanced")

\* Lines 425-438.
HybridTextEnhanced(tm, um) ==
    DeviceMatch(tm.brand, tm.model, tm.type, tm.confidence + 50,
                "hybrid_text_enhanced")

\* A strong user-agent match re-labelled and averaged with the weak text.
TrustUserAgentBlended(tm, um) ==
    DeviceMatch(um.brand, um.model, um.type,
                (tm.confidence + um.confidence) \div 2, "hybrid_ua")

\* Lines 418-420: strong user agent, weak text.
TrustUserAgent(tm, um) == um

\* A choice between two weak matches that gives a tie to the user agent.
BestAvailableTiesUa(tm, um) ==
    IF um # NoMatch /\ um.confidence >= tm.confidence THEN um ELSE tm

\* Lines 442-447: both weak, return the best available.
BestAvailable(tm, um) ==
    IF um # NoMatch /\ um.confidence > tm.confidence THEN um ELSE tm

Fuse(tm, um) ==
    IF um # NoMatch /\ um.confidence > 800
    THEN IF tm.confidence > 800
         THEN IF DevicesMatch(tm, um) THEN HybridPerfect(tm, um)
              ELSE HybridConflict(tm, um)
         ELSE TrustUserAgent(tm, um)
    ELSE IF tm.confidence > 700
    THEN IF um # NoMatch /\ um.confidence > 300 THEN HybridTextEnhanced(tm, um)
         ELSE tm
    ELSE BestAvailable(tm, um)

-----------------------------------------------------------------------------
(***************************************************************************)
(* self.cache = TTLCache(maxsize=1000, ttl=300) (device_matcher.py:43),    *)
(* scaled: CacheMaxSize entries that live CacheTtl clock ticks.  An entry  *)
(* expires CacheTtl ticks after it was stored; a store into a full cache   *)
(* discards the entry stored longest ago.                                  *)
(***************************************************************************)
CacheMaxSize == 2
CacheTtl == 2
MaxCalls == 2

CacheHas(c, key) == \E i \in 1..Len(c) : c[i].key = key

CacheGet(c, key) == c[CHOOSE i \in 1..Len(c) : c[i].key = key].val

CacheWithout(c, key) == SelectSeq(c, LAMBDA e : e.key # key)

RECURSIVE CacheTrim(_)
CacheTrim(c) == IF Len(c) >= CacheMaxSize THEN CacheTrim(Tail(c)) ELSE c

\* self.cache[key] = val
CachePut(c, key, val) ==
    Append(IF CacheHas(c, key) THEN CacheWithout(c, key) ELSE CacheTrim(c),
           [key |-> key, val |-> val, age |-> 0])

\* One clock tick: every entry is one tick older, the expired ones are gone.
CacheTick(c) ==
    SelectSeq([i \in 1..Len(c) |-> [c[i] EXCEPT !.age = @ + 1]],
              LAMBDA e : e.age < CacheTtl)

\* A key for text entries that does not hold the text.
TextCacheKeyShared(t) == "text_"

\* cache_key = f"text_{text_lower}" (line 245), f"ua_{user_agent}" (line 309)
TextCacheKey(t) == "text_" \o TextLower(t)
UaCacheKey(ua) == "ua_" \o ua

\* The value match_device_from_text stores at line 300.
TextCached(t) == TextMatchOf(TextFeatures(TextLower(t)))

(***************************************************************************)
(* match_device_from_text (device_matcher.py:240-301) on cache c: the      *)
(* match returned, the cache afterwards, whether the lookup hit.           *)
(***************************************************************************)
MatchDeviceFromText(c, t) ==
    IF CacheHas(c, TextCacheKey(t))
    THEN [res |-> CacheGet(c, TextCacheKey(t)), cache |-> c, hit |-> TRUE]
    ELSE [res |-> TextCached(t),
          cache |-> CachePut(c, TextCacheKey(t), TextCached(t)),
          hit |-> FALSE]

\* match_device_from_user_agent (device_matcher.py:303-368) on cache c.
MatchDeviceFromUserAgent(c, ua) ==
    IF ua = NoHeader
    THEN [res |-> UnknownDevice("user_agent"), cache |-> c, hit |-> FALSE]
    ELSE IF CacheHas(c, UaCacheKey(ua))
    THEN [res |-> CacheGet(c, UaCacheKey(ua)), cache |-> c, hit |-> TRUE]
    ELSE [res |-> UaMatchOf(ua),
          cache |-> CachePut(c, UaCacheKey(ua), UaMatchOf(ua)),
          hit |-> FALSE]

\* match_device_hybrid (device_matcher.py:370-447) on cache c.
MatchDeviceHybrid(c, t, ua) ==
    LET tr == MatchDeviceFromText(c, t)
        ur == IF ua # NoHeader THEN MatchDeviceFromUserAgent(tr.cache, ua)
              ELSE [res |-> NoMatch, cache |-> tr.cache, hit |-> FALSE]
    IN  [res |-> Fuse(tr.res, ur.res), cache |-> ur.cache,
         tm |-> tr.res, um |-> ur.res, textHit |-> tr.hit, uaHit |-> ur.hit]

-----------------------------------------------------------------------------
(***************************************************************************)
(* SpecMatcher: one EnhancedDeviceMatcher used by one thread.  The calls   *)
(* of match_device_hybrid observed all carry (wtext, wua); other calls of  *)
(* match_device_from_text (RevivaTechEnhancedNLU.extract_device_info) and  *)
(* match_device_from_user_agent fill and evict the cache in between.       *)
(***************************************************************************)
\* The inputs of the calls made between the observed ones.
TrafficTexts == {"samsung phone broken", "iphone14 broken"}
TrafficHeaders == {"curl/8.4.0", "Mozilla/5.0 (Linux; Android 14; SM-S921B)"}

\* No KnowledgeBaseService has been constructed.
IdleKb ==
    /\ store = {}
    /\ dbUp = FALSE
    /\ connection = "none"
    /\ kpc = "idle"
    /\ kquery = {}
    /\ exact = <<>>
    /\ fuzzy = <<>>
    /\ generic = <<>>
    /\ qlast = {}
    /\ out = {}
    /\ nsearch = 0

\* No request is being processed.
IdlePipe == pipe = [pc |-> "idle"]

\* No single call is being observed.
IdleUnits ==
    /\ nlu = [pc |-> "idle"]
    /\ qm = [pc |-> "idle"]
    /\ mlpass = [pc |-> "idle"]
    /\ perf = [pc |-> "idle"]

\* The matcher is not shared: no thread is inside a call.
IdleRace ==
    /\ thr = <<>>
    /\ detector = [ua |-> NoHeader, parsed |-> FALSE]

InitMatcher ==
    /\ cache = <<>>
    /\ wtext \in Texts
    /\ wua \in Headers
    /\ ncalls = 0
    /\ first = {}
    /\ last = {}
    /\ IdleRace
    /\ IdleKb
    /\ IdlePipe
    /\ IdleUnits

HybridCall ==
    /\ ncalls < MaxCalls
    /\ LET r == MatchDeviceHybrid(cache, wtext, wua)
       IN  /\ cache' = r.cache
           /\ last' = {[tm |-> r.tm, um |-> r.um, res |-> r.res,
                        textHit |-> r.textHit, uaHit |-> r.uaHit]}
           /\ first' = IF ncalls = 0 THEN {r.res} ELSE first
    /\ ncalls' = ncalls + 1
    /\ UNCHANGED <<wtext, wua, raceVars, kbVars, pipe, unitVars>>

TextCall ==
    \E t \in TrafficTexts :
        /\ cache' = MatchDeviceFromText(cache, t).cache
        /\ UNCHANGED <<wtext, wua, ncalls, first, last, raceVars, kbVars, pipe, unitVars>>

UaCall ==
    \E ua \in TrafficHeaders :
        /\ cache' = MatchDeviceFromUserAgent(cache, ua).cache
        /\ UNCHANGED <<wtext, wua, ncalls, first, last, raceVars, kbVars, pipe, unitVars>>

Tick ==
    /\ cache # <<>>
    /\ cache' = CacheTick(cache)
    /\ UNCHANGED <<wtext, wua, ncalls, first, last, raceVars, kbVars, pipe, unitVars>>

NextMatcher == HybridCall \/ TextCall \/ UaCall \/ Tick

SpecMatcher == InitMatcher /\ [][NextMatcher]_vars

-----------------------------------------------------------------------------
(***************************************************************************)
(* Properties of EnhancedDeviceMatcher, checked under SpecMatcher.         *)
(***************************************************************************)

\* C3: match_device_hybrid(t, h) called again on the same matcher with the
\* same t and h returns the DeviceMatch (brand, model, type, confidence,
\* source) the first call returned, whatever the cache held before either
\* call and whatever expired or was evicted in between.
HybridIdempotent == \A c \in last : first = {c.res}

\* A second call that found neither of its two cache entries.
HybridRepeatedCold ==
    /\ ncalls >= 2
    /\ wua # NoHeader
    /\ \E c \in last : ~c.textHit /\ ~c.uaHit

\* Both matches have confidence > 0.8.
BothStrong(c) ==
    c.um # NoMatch /\ c.um.confidence > 800 /\ c.tm.confidence > 800

\* Same brand ignoring case and model similarity > 70%.
Agree(c) ==
    /\ Lower(c.tm.brand) = Lower(c.um.brand)
    /\ FuzzRatio(Lower(c.tm.model), Lower(c.um.model)) > 70

\* C4: when the header match and the text match both have confidence > 0.8
\* and agree, match_device_hybrid returns source hybrid_perfect, confidence
\* min(0.98, (text + header) / 2 + 0.1) and the header match's brand, model
\* and type.
HybridPerfectRule ==
    \A c \in last :
        BothStrong(c) /\ Agree(c) =>
            c.res = [brand |-> c.um.brand, model |-> c.um.model, type |-> c.um.type,
                     confidence |->
                         Min(980, (c.tm.confidence + c.um.confidence) \div 2 + 100),
                     source |-> "hybrid_perfect"]

\* An agreement whose confidence stays under the 0.98 cap, the two brands
\* differing in case only.
HybridPerfectReached ==
    \E c \in last :
        /\ BothStrong(c) /\ Agree(c)
        /\ c.tm.brand # c.um.brand
        /\ c.res.confidence < 980

\* C5: when the header match and the text match both have confidence > 0.8
\* and do not agree, match_device_hybrid returns source hybrid_conflict,
\* confidence max(text, header) * 0.9 and the header match's brand, model
\* and type.
HybridConflictRule ==
    \A c \in last :
        BothStrong(c) /\ ~Agree(c) =>
            c.res = [brand |-> c.um.brand, model |-> c.um.model, type |-> c.um.type,
                     confidence |->
                         (Max(c.tm.confidence, c.um.confidence) * 9) \div 10,
                     source |-> "hybrid_conflict"]

\* A conflict between matches of one brand, the text match the stronger.
HybridConflictReached ==
    \E c \in last :
        /\ BothStrong(c) /\ ~Agree(c)
        /\ Lower(c.tm.brand) = Lower(c.um.brand)
        /\ c.tm.confidence > c.um.confidence

\* The brand, model and type of the result are those of the match m.
SameDevice(res, m) ==
    res.brand = m.brand /\ res.model = m.model /\ res.type = m.type

\* C14: when the header match has confidence > 0.8 and the text match has
\* confidence <= 0.8, match_device_hybrid returns the header match
\* unchanged: its brand, model, type, confidence and source.
StrongHeaderReturned ==
    \A c \in last :
        c.um # NoMatch /\ c.um.confidence > 800 /\ c.tm.confidence <= 800 =>
            c.res = c.um

\* A strong header met by a text match of confidence exactly 0.8.
StrongHeaderWeakTextReached ==
    \E c \in last :
        /\ c.um # NoMatch /\ c.um.confidence > 800
        /\ c.tm.confidence = 800
        /\ c.res = c.um

\* The header match is absent or has confidence <= 0.8.
HeaderNotStrong(c) == c.um = NoMatch \/ c.um.confidence <= 800

\* C15: when the header match is absent or has confidence <= 0.8 and the
\* text match has confidence > 0.7, match_device_hybrid returns, if a
\* header match exists with confidence > 0.3, the text match's brand, model
\* and type with confidence text + 0.05 and source hybrid_text_enhanced,
\* and otherwise the text match unchanged.
TextEnhancedRule ==
    \A c \in last :
        HeaderNotStrong(c) /\ c.tm.confidence > 700 =>
            IF c.um # NoMatch /\ c.um.confidence > 300
            THEN c.res = [brand |-> c.tm.brand, model |-> c.tm.model,
                          type |-> c.tm.type,
                          confidence |-> c.tm.confidence + 50,
                          source |-> "hybrid_text_enhanced"]
            ELSE c.res = c.tm

\* A good text match enhanced by a header match of another device.
TextEnhancedReached ==
    \E c \in last :
        /\ c.um # NoMatch /\ c.um.confidence > 300 /\ c.um.confidence <= 800
        /\ c.tm.confidence > 700
        /\ ~SameDevice(c.um, c.tm)
        /\ c.res.source = "hybrid_text_enhanced"

\* C16: when the header match is absent or has confidence <= 0.8 and the
\* text match has confidence <= 0.7, match_device_hybrid returns the header
\* match if it exists and its confidence is strictly greater than the
\* text match's, and otherwise the text match; a tie goes to the text.
BestAvailableRule ==
    \A c \in last :
        HeaderNotStrong(c) /\ c.tm.confidence <= 700 =>
            IF c.um # NoMatch /\ c.um.confidence > c.tm.confidence
            THEN c.res = c.um
            ELSE c.res = c.tm

\* Two weak matches of equal confidence and different source: the text
\* match was returned.
BestAvailableTieReached ==
    \E c \in last :
        /\ c.um # NoMatch
        /\ c.um.confidence = c.tm.confidence
        /\ c.tm.confidence <= 700
        /\ c.um # c.tm
        /\ c.res = c.tm

\* C17: when exactly one of the text match and the header match has
\* confidence > 0.8, the match returned has a confidence no lower than
\* that source's and that source's brand, model and type.
StrongSourceWins ==
    \A c \in last :
        /\ (c.um # NoMatch /\ c.um.confidence > 800 /\ c.tm.confidence <= 800) =>
               c.res.confidence >= c.um.confidence /\ SameDevice(c.res, c.um)
        /\ (c.tm.confidence > 800 /\ HeaderNotStrong(c)) =>
               c.res.confidence >= c.tm.confidence /\ SameDevice(c.res, c.tm)

\* A strong text match met by a header match of confidence 0.8 naming
\* another device.
StrongTextWeakHeaderReached ==
    \E c \in last :
        /\ c.tm.confidence > 800
        /\ c.um # NoMatch /\ c.um.confidence = 800
        /\ ~SameDevice(c.um, c.tm)
        /\ SameDevice(c.res, c.tm)

\* best_match after the pattern scan of the observed message (line 279).
ScanOf(t) == ScanBrands(TextFeatures(TextLower(t)).hits, 1, UnknownDevice("text"))

\* The confidence scale of a text match: min(0.95, similarity / 100) for a
\* pattern match, 0.75 for an alias match with a resolved model, 0.5 for a
\* brand-only alias match, 0.1 when nothing matched.
ConfidenceScale(tm, f) ==
    CASE tm.source = "text_pattern" ->
             \E h \in f.hits : h.score > 60 /\ tm.confidence = Min(950, h.score * 10)
      [] tm.source = "text_fuzzy" ->
             tm.confidence = (IF tm.model # "Unknown Model" THEN 750 ELSE 500)
      [] OTHER -> tm = UnknownDevice("text")

\* C26 as stated: match_device_from_text runs the brand-alias fallback
\* exactly when no pattern match with confidence > 0.8 was found, so also at
\* confidence exactly 0.8, and the returned confidence follows the scale.
FallbackUnlessAboveEightTenths ==
    \A c \in last :
        LET f == TextFeatures(TextLower(wtext))
        IN  /\ (c.tm.source = "text_fuzzy")
                   <=> (ScanOf(wtext).confidence <= 800 /\ f.alias # None)
            /\ ConfidenceScale(c.tm, f)

\* C26: match_device_from_text runs the brand-alias fallback exactly when
\* the pattern scan ends with a confidence < 0.8 (a pattern match of exactly
\* 0.8 is returned as it is), and the returned confidence is
\* min(0.95, similarity / 100) for a pattern match, 0.75 for an alias match
\* with a resolved model, 0.5 for a brand-only alias match and 0.1 when
\* nothing matched.
FallbackBelowEightTenths ==
    \A c \in last :
        LET f == TextFeatures(TextLower(wtext))
        IN  /\ (c.tm.source = "text_fuzzy")
                   <=> (ScanOf(wtext).confidence < 800 /\ f.alias # None)
            /\ c.tm.source # "text_fuzzy" => c.tm = ScanOf(wtext)
            /\ ConfidenceScale(c.tm, f)

\* A message with a brand alias whose pattern match has confidence exactly
\* 0.8 was matched: the pattern match was returned.
PatternAtBoundaryReturned ==
    \E c \in last :
        /\ TextFeatures(TextLower(wtext)).alias # None
        /\ ScanOf(wtext).confidence = 800
        /\ c.tm.source = "text_pattern"
        /\ c.tm.confidence = 800

\* C29: the confidence returned by match_device_from_text is never lower
\* than the confidence of any pattern match found during the scan: neither
\* a pattern match of a later brand nor the brand-alias fallback replaces an
\* earlier pattern match with a result of lower confidence.
PatternConfidenceKept ==
    \A c \in last :
        \A h \in TextFeatures(TextLower(wtext)).hits :
            h.score > 60 => c.tm.confidence >= Min(950, h.score * 10)

-----------------------------------------------------------------------------
(***************************************************************************)
(* SpecRace: one EnhancedDeviceMatcher shared by two threads of a          *)
(* multi-threaded host.  Each thread makes one call; a step of a thread is *)
(* the code between two accesses of the state the instance shares:         *)
(* self.cache and self.device_detector (device_matcher.py:40, 43).         *)
(***************************************************************************)
Threads == {1, 2}

\* The calls the threads make.
RaceHeaders ==
    {NoHeader,
     "Mozilla/5.0 (iPhone; CPU iPhone OS 16_0 like Mac OS X)",
     "Mozilla/5.0 (Linux; Android 14; SM-S921B)",
     "Mozilla/5.0 (Macintosh; Intel Mac OS X 10_15_7)",
     "%%%"}
RaceTexts == {"iphone14 broken", "my phone is broken"}
RaceCalls ==
    {[op |-> "ua", input |-> h] : h \in RaceHeaders}
        \cup {[op |-> "text", input |-> t] : t \in RaceTexts}

\* What the call returns, and caches, when no other call runs beside it.
Sequential(call) ==
    IF call.op = "ua" THEN MatchDeviceFromUserAgent(<<>>, call.input).res
    ELSE MatchDeviceFromText(<<>>, call.input).res

CallKey(call) ==
    IF call.op = "ua" THEN UaCacheKey(call.input) ELSE TextCacheKey(call.input)

\* What a DeviceDetector answers once parse() has run on it.
DetectorAnswer(det) == DeviceDetectorParse(det.ua)

\* A DeviceDetector nobody has parsed holds no device.
Unparsed == Detected(FALSE, FALSE, FALSE, "", "")

InitRace ==
    /\ cache = <<>>
    /\ wtext = "my phone is broken"
    /\ wua = NoHeader
    /\ ncalls = 0
    /\ first = {}
    /\ last = {}
    /\ detector = [ua |-> NoHeader, parsed |-> FALSE]
    /\ IdleKb
    /\ IdlePipe
    /\ IdleUnits
    /\ \E c \in [Threads -> RaceCalls] :
          thr = [t \in Threads |->
                    [op |-> c[t].op, input |-> c[t].input, pc |-> "lookup",
                     pending |-> {}, res |-> {}]]

\* Thread t moves to pc with the DeviceMatch it will cache and return.
Goto(t, pc, pending) ==
    thr' = [thr EXCEPT ![t].pc = pc, ![t].pending = pending]

\* Lines 305-311 and 245-247: the empty header, and the cache lookup.
RaceLookup(t) ==
    /\ thr[t].pc = "lookup"
    /\ IF thr[t].op = "ua" /\ thr[t].input = NoHeader
       THEN thr' = [thr EXCEPT ![t].pc = "done",
                               ![t].res = {UnknownDevice("user_agent")}]
       ELSE IF CacheHas(cache, CallKey(thr[t]))
       THEN thr' = [thr EXCEPT ![t].pc = "done",
                               ![t].res = {CacheGet(cache, CallKey(thr[t]))}]
       ELSE IF thr[t].op = "ua" THEN Goto(t, "construct", {})
       ELSE Goto(t, "store", {TextCached(thr[t].input)})
    /\ UNCHANGED <<cache, detector, wtext, wua, ncalls, first, last, kbVars, pipe, unitVars>>

\* Line 315: self.device_detector = DeviceDetector(user_agent).
RaceConstruct(t) ==
    /\ thr[t].pc = "construct"
    /\ detector' = [ua |-> thr[t].input, parsed |-> FALSE]
    /\ Goto(t, "parse", {})
    /\ UNCHANGED <<cache, wtext, wua, ncalls, first, last, kbVars, pipe, unitVars>>

\* Line 316: self.device_detector.parse(), on whichever detector the
\* attribute holds now; what it raises is caught at line 361.
RaceParse(t) ==
    /\ thr[t].pc = "parse"
    /\ IF DetectorAnswer(detector).raises
       THEN /\ Goto(t, "store", {UnknownDevice("user_agent")})
            /\ UNCHANGED detector
       ELSE /\ detector' = [detector EXCEPT !.parsed = TRUE]
            /\ Goto(t, "check", {})
    /\ UNCHANGED <<cache, wtext, wua, ncalls, first, last, kbVars, pipe, unitVars>>

\* Line 318: is_mobile() or is_tablet(), read from the attribute.  A detector
\* another thread has constructed and not yet parsed answers as no device,
\* or raises, which line 361 catches.
RaceCheck(t) ==
    /\ thr[t].pc = "check"
    /\ \/ /\ detector.parsed
          /\ LET d == DetectorAnswer(detector)
             IN  IF d.mobile \/ d.tablet THEN Goto(t, "build", {})
                 ELSE Goto(t, "alternative", {})
       \/ /\ ~detector.parsed
          /\ \/ Goto(t, "alternative", {})
             \/ Goto(t, "store", {UnknownDevice("user_agent")})
    /\ UNCHANGED <<cache, detector, wtext, wua, ncalls, first, last, kbVars, pipe, unitVars>>

\* Lines 319-336: brand, model and kind, read from the attribute again.
RaceBuild(t) ==
    /\ thr[t].pc = "build"
    /\ \/ /\ detector.parsed
          /\ Goto(t, "store", {MatomoMatch(DetectorAnswer(detector))})
       \/ /\ ~detector.parsed
          /\ \/ Goto(t, "store", {MatomoMatch(Unparsed)})
             \/ Goto(t, "store", {UnknownDevice("user_agent")})
    /\ UNCHANGED <<cache, detector, wtext, wua, ncalls, first, last, kbVars, pipe, unitVars>>

\* Lines 342-356 and 366: the alternative parser, on the thread's own header.
RaceAlternative(t) ==
    /\ thr[t].pc = "alternative"
    /\ LET a == ParseUserAgent(thr[t].input)
       IN  IF a.brand # "" /\ a.model # ""
           THEN Goto(t, "store", {AlternativeMatch(a)})
           ELSE Goto(t, "store", {UnknownDevice("user_agent")})
    /\ UNCHANGED <<cache, detector, wtext, wua, ncalls, first, last, kbVars, pipe, unitVars>>

\* Lines 338-339, 358-359, 367-368 and 300-301: cache the result, return it.
RaceStore(t) ==
    /\ thr[t].pc = "store"
    /\ \E m \in thr[t].pending :
          /\ cache' = CachePut(cache, CallKey(thr[t]), m)
          /\ thr' = [thr EXCEPT ![t].pc = "done", ![t].res = {m}]
    /\ UNCHANGED <<detector, wtext, wua, ncalls, first, last, kbVars, pipe, unitVars>>

NextRace ==
    \E t \in Threads :
        \/ RaceLookup(t)
        \/ RaceConstruct(t)
        \/ RaceParse(t)
        \/ RaceCheck(t)
        \/ RaceBuild(t)
        \/ RaceAlternative(t)
        \/ RaceStore(t)

SpecRace == InitRace /\ [][NextRace]_vars

\* C9: when two threads call match_device_from_user_agent or
\* match_device_from_text on one matcher at the same time, each finished call
\* has returned the DeviceMatch a sequential call with its input returns, and
\* the entry cached under its key, while there, is that same DeviceMatch.
ConcurrentCallsSequential ==
    \A t \in DOMAIN thr :
        thr[t].pc = "done" =>
            /\ thr[t].res = {Sequential(thr[t])}
            /\ CacheHas(cache, CallKey(thr[t])) =>
                   CacheGet(cache, CallKey(thr[t])) = Sequential(thr[t])

-----------------------------------------------------------------------------
(***************************************************************************)
(* KnowledgeBaseService (knowledge_base_service.py).                       *)
(*                                                                         *)
(* A row of repair_procedures.  A nullable column is a set: {} for NULL,   *)
(* {v} for the value v.  quality_score is in tenths (4.5 is 45),           *)
(* success_rate in percent.  terms are the lexemes of title and            *)
(* description; rank[q] is ts_rank of the row for the search text of query  *)
(* q, in thousandths.                                                      *)
(***************************************************************************)
Procedure(id, status, brands, models, types, categories, tags, keywords, quality, success, views, terms, rank) ==
    [id |-> id, status |-> status,
     device_compatibility |-> [json |-> "object", brands |-> brands, models |-> models, types |-> types],
     problem_categories |-> categories, diagnostic_tags |-> tags,
     ai_keywords |-> keywords,
     quality_score |-> quality, success_rate |-> success, view_count |-> views,
     terms |-> terms, rank |-> rank]

\* The row p with a device_compatibility that is not a JSON object: json is
\* "text" for a string that json.loads rejects, "array" for a JSON array.
\* device_compatibility->>'brands' and ->>'types' are NULL on such a value.
Malformed(p, json) ==
    [p EXCEPT !.device_compatibility =
                  [json |-> json, brands |-> {}, models |-> {}, types |-> {}]]

\* The rows the store may hold.
Catalogue ==
    {Procedure(1, "published", {"Apple"}, {"iPhone 14"}, {"Smartphone"},
               {"Screen Damage"}, {"screen_damage", "cracked"},
               {"screen", "damage"}, {45}, {92}, {250},
               {"iphon", "14", "pro", "screen", "crack", "replac"}, <<71, 0, 48, 0>>),
     Procedure(2, "published", {"*"}, {"*"}, {"Smartphone", "Tablet"},
               {"Screen Damage"}, {"screen_damage"},
               {"screen", "glass", "touch", "display", "lcd"}, {40}, {85}, {40},
               {"smartphon", "screen", "repair", "crack"}, <<32, 0, 12, 0>>),
     Procedure(3, "published", {"Dell"}, {"Latitude"}, {"Laptop"},
               {"Power"}, {"battery"},
               {}, {}, {}, {3},
               {"laptop", "batteri", "drain", "diagnosi"}, <<0, 61, 0, 30>>),
     Procedure(4, "draft", {"Apple"}, {"iPhone 14"}, {"Smartphone"},
               {"Screen Damage"}, {"screen_damage"},
               {"screen"}, {50}, {99}, {10},
               {"iphon", "14", "pro", "screen", "crack"}, <<99, 0, 48, 0>>),
     Procedure(5, "published", {"Apple"}, {"iPhone"}, {"Smartphone"},
               {"Screen Damage"}, {"screen_damage"},
               {"screen", "damage"}, {44}, {92}, {250},
               {"iphon", "14", "pro", "screen", "crack", "display"}, <<91, 0, 52, 0>>),
     Procedure(6, "published", {"Samsung"}, {}, {"Smartphone", "Tablet"},
               {"Battery Issues"}, {"battery_issues"},
               {"battery"}, {38}, {70}, {},
               {"tablet", "charg", "port"}, <<0, 0, 0, 0>>),
     Malformed(Procedure(7, "published", {}, {}, {},
                         {"Battery Issues"}, {"battery_issues"},
                         {"battery"}, {41}, {88}, {12},
                         {"batteri", "drain", "replac"}, <<0, 40, 0, 30>>), "text"),
     Malformed(Procedure(8, "published", {}, {}, {},
                         {"Screen Damage"}, {"screen_damage"},
                         {"screen"}, {42}, {90}, {30},
                         {"iphon", "14", "pro", "screen", "crack", "glass"}, <<55, 0, 48, 0>>),
               "array")}

\* phase2_result['device'], phase2_result['problem'] and the message of a
\* request: words are the words of the problem text (line 280-282), terms
\* the lexemes of plainto_tsquery on the message, overall the
\* overall_confidence of phase 2 in ten-thousandths (it is not rounded).
Query(id, brand, model, type, category, issue, words, terms, overall) ==
    [id |-> id, overall_confidence |-> overall,
     device_info |-> [brand |-> brand, model |-> model, type |-> type],
     problem_info |-> [category |-> category, issue |-> issue],
     words |-> words, terms |-> terms]

Queries ==
    {Query(1, "Apple", "iPhone 14", "Smartphone", "Screen Damage", "screen_damage",
           {"screen", "damage", "screen_damage"},
           {"iphon", "14", "pro", "screen", "crack"}, 7875),
     Query(2, "Unknown", "Unknown Model", "Unknown Device", "Battery Issues",
           "battery_issues", {"battery", "issues", "battery_issues"},
           {"batteri", "drain"}, 3950)}

\* The value of a column that is not NULL.
Val(column) == CHOOSE v \in column : TRUE

-----------------------------------------------------------------------------
(***************************************************************************)
(* _connect_database and _execute_query (lines 44-64).                     *)
(***************************************************************************)
\* Lines 44-51: psycopg2.connect succeeds when the server answers.
ConnectDatabase(up) == IF up THEN "open" ELSE "none"

\* The specification's reading of _execute_query: after a failure the
\* connection is set up again and the query runs a second time.
ExecuteQueryRetrying(conn, up) ==
    LET c1 == IF conn = "none" THEN ConnectDatabase(up) ELSE conn
        ok1 == c1 = "open" /\ up
        c2 == IF ok1 THEN c1 ELSE ConnectDatabase(up)
    IN  [connection |-> c2,
         connects |-> (IF conn = "none" THEN 1 ELSE 0) + (IF ok1 THEN 0 ELSE 1),
         attempts |-> IF ok1 THEN 1 ELSE 2,
         failed |-> ~ok1,
         ok |-> ok1 \/ (c2 = "open" /\ up),
         raised |-> FALSE]

\* Lines 53-64: connect when no connection object is held, run the query in
\* one try block, return [] when anything in it raises.  A connection object
\* that has lost its server is still an object (line 55 sees it as true).
ExecuteQuery(conn, up) ==
    LET c1 == IF conn = "none" THEN ConnectDatabase(up) ELSE conn
    IN  [connection |-> c1,
         connects |-> IF conn = "none" THEN 1 ELSE 0,
         attempts |-> 1,
         failed |-> ~(c1 = "open" /\ up),
         ok |-> c1 = "open" /\ up,
         raised |-> FALSE]

\* What is recorded of an _execute_query call.
QueryRecord(conn, up, r) ==
    [before |-> conn, up |-> up, after |-> r.connection, connects |-> r.connects,
     attempts |-> r.attempts, failed |-> r.failed, ok |-> r.ok, raised |-> r.raised]

-----------------------------------------------------------------------------
(***************************************************************************)
(* _search_procedures_database (lines 130-196): what the three SELECTs     *)
(* answer on a store, and the merge of the three answers.                  *)
(***************************************************************************)
ExactLimit == 10
FuzzyLimit == 15
GenericLimit == 5
GenericRank == 500

\* A row as a query returns it: rp.* with search_rank and, for the second
\* and third SELECT, match_type.
ResultRow(p, rank, match_type) ==
    [id |-> p.id, proc |-> p, search_rank |-> rank, match_type |-> match_type]

\* ORDER BY ... DESC on rows whose keys differ.
RECURSIVE OrderBy(_, _)
OrderBy(S, key) ==
    IF S = {} THEN <<>>
    ELSE LET m == CHOOSE r \in S : \A o \in S : key[o] <= key[r]
         IN  <<m>> \o OrderBy(S \ {m}, key)

\* LIMIT n.
Limit(rows, n) == SubSeq(rows, 1, Min(Len(rows), n))

\* quality_score DESC NULLS LAST; view_count DESC (NULL first).
QualityKey(p) == IF p.quality_score = {} THEN 0 ELSE Val(p.quality_score) + 1
ViewKey(p) == IF p.view_count = {} THEN 99999 ELSE Val(p.view_count)
RankQualityKey(S, q) == [p \in S |-> p.rank[q.id] * 100 + QualityKey(p)]
QualityViewKey(S) == [p \in S |-> QualityKey(p) * 100000 + ViewKey(p)]

\* Lines 134-152: strategy 1.
ExactQuery(rows, q) ==
    LET S == {p \in rows :
                /\ p.status = "published"
                /\ q.device_info.brand \in p.device_compatibility.brands
                /\ \/ q.problem_info.category \in p.problem_categories
                   \/ q.problem_info.issue \in p.diagnostic_tags}
        sorted == Limit(OrderBy(S, RankQualityKey(S, q)), ExactLimit)
    IN  [i \in 1..Len(sorted) |-> ResultRow(sorted[i], sorted[i].rank[q.id], None)]

\* Lines 154-170: strategy 2.
FuzzyQuery(rows, q) ==
    LET S == {p \in rows : p.status = "published" /\ q.terms \subseteq p.terms}
        sorted == Limit(OrderBy(S, RankQualityKey(S, q)), FuzzyLimit)
    IN  [i \in 1..Len(sorted) |->
            ResultRow(sorted[i], sorted[i].rank[q.id], "fuzzy_match")]

\* Lines 172-184: strategy 3.
GenericQuery(rows, q) ==
    LET S == {p \in rows :
                /\ p.status = "published"
                /\ q.device_info.type \in p.device_compatibility.types}
        sorted == Limit(OrderBy(S, QualityViewKey(S)), GenericLimit)
    IN  [i \in 1..Len(sorted) |-> ResultRow(sorted[i], GenericRank, "generic_match")]

\* A merge that lets a later strategy's record replace an earlier one.
RECURSIVE DedupKeepLast(_)
DedupKeepLast(all_results) ==
    IF all_results = <<>> THEN <<>>
    ELSE LET n == Len(all_results)
             front == SubSeq(all_results, 1, n - 1)
             keep == SelectSeq(front, LAMBDA r : r.id # all_results[n].id)
         IN  DedupKeepLast(keep) \o <<all_results[n]>>

\* Lines 187-196: the seen_ids loop over all_results.
RECURSIVE Dedup(_)
Dedup(all_results) ==
    IF all_results = <<>> THEN <<>>
    ELSE LET rest == SelectSeq(Tail(all_results),
                               LAMBDA r : r.id # Head(all_results).id)
         IN  <<Head(all_results)>> \o Dedup(rest)

-----------------------------------------------------------------------------
(***************************************************************************)
(* _rank_procedures and its three scores (lines 198-312), thousandths.     *)
(***************************************************************************)
\* `a in b` on the model names of the catalogue.
Within(a, b) == a = b \/ <<a, b>> \in {<<"iPhone", "iPhone 14">>}

\* Lines 238-244: the value `compatibility` after the isinstance branch, a
\* string that json.loads rejects having become {}.
LoadCompatibility(p) ==
    IF p.device_compatibility.json = "text"
    THEN [json |-> "object", brands |-> {}, models |-> {}, types |-> {}]
    ELSE p.device_compatibility

\* Line 249: compatibility.get raises AttributeError on a value that is not
\* a dict.
CompatibilityRaises(p) == LoadCompatibility(p).json # "object"

\* Lines 236-264, on a row on which it does not raise.
ScoreDeviceCompatibility(p, device_info) ==
    LET c == LoadCompatibility(p)
        brand == IF device_info.brand \in c.brands \/ "*" \in c.brands THEN 500 ELSE 0
        model == IF \/ \E m \in c.models :
                          Within(m, device_info.model) \/ Within(device_info.model, m)
                    \/ "*" \in c.models
                 THEN 300 ELSE 0
        type == IF device_info.type \in c.types \/ "*" \in c.types THEN 200 ELSE 0
    IN  Min(brand + model + type, 1000)

\* Lines 266-291; keyword_matches / len(keywords) is a whole number of
\* thousandths, or above the cap of 0.2, for the keyword lists of the model.
ScoreProblemRelevance(p, q) ==
    LET category == IF q.problem_info.category \in p.problem_categories THEN 600 ELSE 0
        issue == IF q.problem_info.issue \in p.diagnostic_tags THEN 400 ELSE 0
        keyword_matches == Cardinality(p.ai_keywords \cap q.words)
        keyword_bonus == IF p.ai_keywords = {} THEN 0
                         ELSE Min((keyword_matches * 1000) \div Cardinality(p.ai_keywords), 200)
    IN  Min(category + issue + keyword_bonus, 1000)

\* Line 307: view_count / 100.0 raises TypeError on a NULL view_count.
QualityRaises(p) == p.view_count = {}

\* Lines 206-218: a score of the candidate raises.
ScoreRaises(r) == CompatibilityRaises(r.proc) \/ QualityRaises(r.proc)

\* A quality score whose popularity term is not normalised to 100 views.
ScoreQualityMetricsUnnormalised(p) ==
    LET quality == IF p.quality_score = {} THEN 0 ELSE Val(p.quality_score) * 10
        success == IF p.success_rate = {} THEN 0 ELSE Val(p.success_rate) * 3
    IN  Min(quality + success + Val(p.view_count) * 2, 1000)

\* Lines 293-312.
ScoreQualityMetrics(p) ==
    LET quality == IF p.quality_score = {} THEN 0 ELSE Val(p.quality_score) * 10
        success == IF p.success_rate = {} THEN 0 ELSE Val(p.success_rate) * 3
        popularity == Min(Val(p.view_count) * 2, 200)
    IN  Min(quality + success + popularity, 1000)

\* round(score, 3) of a score held in ten-thousandths.
Round3(x) == (x + 5) \div 10

\* A candidate scored with the weights of device and problem exchanged.
ScoredProblemFirst(r, q) ==
    LET device_score == ScoreDeviceCompatibility(r.proc, q.device_info)
        problem_score == ScoreProblemRelevance(r.proc, q)
        quality_score == ScoreQualityMetrics(r.proc)
        search_score == r.search_rank
        score == device_score * 3 + problem_score * 4 + quality_score * 2
                     + Min(search_score, 1000)
    IN  [id |-> r.id, match_type |-> r.match_type, search_rank |-> r.search_rank,
         relevance_score |-> Round3(score),
         scoring_breakdown |->
             [device_compatibility |-> device_score,
              problem_relevance |-> problem_score,
              quality_metrics |-> quality_score,
              search_relevance |-> search_score]]

\* Lines 206-231: one candidate with its relevance_score and breakdown.
Scored(r, q) ==
    LET device_score == ScoreDeviceCompatibility(r.proc, q.device_info)
        problem_score == ScoreProblemRelevance(r.proc, q)
        quality_score == ScoreQualityMetrics(r.proc)
        search_score == r.search_rank
        score == device_score * 4 + problem_score * 3 + quality_score * 2
                     + Min(search_score, 1000)
    IN  [id |-> r.id, match_type |-> r.match_type, search_rank |-> r.search_rank,
         relevance_score |-> Round3(score),
         scoring_breakdown |->
             [device_compatibility |-> device_score,
              problem_relevance |-> problem_score,
              quality_metrics |-> quality_score,
              search_relevance |-> search_score]]

\* A sort that puts a candidate before the earlier ones of equal score.
RECURSIVE SortedUnstable(_)
SortedUnstable(procedures) ==
    IF procedures = <<>> THEN <<>>
    ELSE LET n == Len(procedures)
             x == procedures[n]
             front == SortedUnstable(SubSeq(procedures, 1, n - 1))
             above == SelectSeq(front, LAMBDA y : y.relevance_score > x.relevance_score)
             below == SelectSeq(front, LAMBDA y : y.relevance_score <= x.relevance_score)
         IN  above \o <<x>> \o below

\* A sort that puts, among candidates of equal score, the one with the higher
\* quality first.
RECURSIVE SortedTiesByQuality(_)
SortedTiesByQuality(procedures) ==
    IF procedures = <<>> THEN <<>>
    ELSE LET n == Len(procedures)
             x == procedures[n]
             front == SortedTiesByQuality(SubSeq(procedures, 1, n - 1))
             before(y) == \/ y.relevance_score > x.relevance_score
                          \/ /\ y.relevance_score = x.relevance_score
                             /\ y.scoring_breakdown.quality_metrics
                                    >= x.scoring_breakdown.quality_metrics
             above == SelectSeq(front, before)
             below == SelectSeq(front, LAMBDA y : ~before(y))
         IN  above \o <<x>> \o below

\* Line 234: sorted(procedures, key=relevance_score, reverse=True); Python's
\* sort is stable, also with reverse=True.
RECURSIVE Sorted(_)
Sorted(procedures) ==
    IF procedures = <<>> THEN <<>>
    ELSE LET n == Len(procedures)
             x == procedures[n]
             front == Sorted(SubSeq(procedures, 1, n - 1))
             above == SelectSeq(front, LAMBDA y : y.relevance_score >= x.relevance_score)
             below == SelectSeq(front, LAMBDA y : y.relevance_score < x.relevance_score)
         IN  above \o <<x>> \o below

\* Lines 198-234.
RankProcedures(procedures, q) ==
    Sorted([i \in 1..Len(procedures) |-> Scored(procedures[i], q)])

\* Line 318: procedures[:5].
EnhanceLimit == 5
EnhanceProcedureResults(ranked) == Limit(ranked, EnhanceLimit)

\* The confidence formula applied to an empty result list as to any other.
CalculateKnowledgeConfidenceUnguarded(results) ==
    LET top_score == IF results = <<>> THEN 0 ELSE results[1].relevance_score
        good_matches == Cardinality({i \in 1..Len(results) :
                                        results[i].relevance_score > 700})
        confidence_penalty ==
            IF \A i \in 1..Len(results) : results[i].relevance_score < 800
            THEN 100 ELSE 0
    IN  Min(top_score + Min(good_matches * 50, 150) - confidence_penalty, 1000)

\* Lines 437-456.
CalculateKnowledgeConfidence(results) ==
    IF results = <<>> THEN 0
    ELSE LET top_score == results[1].relevance_score
             good_matches == Cardinality({i \in 1..Len(results) :
                                             results[i].relevance_score > 700})
             confidence_boost == Min(good_matches * 50, 150)
             confidence_penalty ==
                 IF \A i \in 1..Len(results) : results[i].relevance_score < 800
                 THEN 100 ELSE 0
         IN  Min(top_score + confidence_boost - confidence_penalty, 1000)

-----------------------------------------------------------------------------
(***************************************************************************)
(* get_diagnostic_recommendations (knowledge_base_service.py:458-507) and  *)
(* _calculate_enhanced_confidence (nlu_service_phase3.py:314-348).         *)
(***************************************************************************)
\* The confidence_threshold values of the recommendations the rules query
\* may lead to.
DiagnosticAnswers == {<<>>, <<700>>, <<800, 600>>, <<500, 420>>}

RECURSIVE Sum(_)
Sum(seq) == IF seq = <<>> THEN 0 ELSE Head(seq) + Sum(Tail(seq))

\* round(x, 3) of a value held in hundred-thousandths.
Round3Of5(x) == (x + 50) \div 100

\* The metrics with the level read off the rounded overall_confidence.
CalculateEnhancedConfidenceRoundedLevel(phase2_confidence, kb_confidence, diagnostic_recs) ==
    LET diagnostic_confidence ==
            IF diagnostic_recs = <<>> THEN 0
            ELSE Sum(diagnostic_recs) \div Len(diagnostic_recs)
        overall_confidence ==
            Round3Of5(phase2_confidence * 4 + kb_confidence * 40
                          + diagnostic_confidence * 20)
    IN  [phase2_confidence |-> Round3(phase2_confidence),
         knowledge_base_confidence |-> kb_confidence,
         diagnostic_confidence |-> diagnostic_confidence,
         overall_confidence |-> overall_confidence,
         confidence_level |-> IF overall_confidence > 800 THEN "high"
                              ELSE IF overall_confidence > 600 THEN "medium"
                              ELSE "low"]

\* Lines 314-348; phase2_confidence in ten-thousandths, the rest in
\* thousandths.
CalculateEnhancedConfidence(phase2_confidence, kb_confidence, diagnostic_recs) ==
    LET diagnostic_confidence ==
            IF diagnostic_recs = <<>> THEN 0
            ELSE Sum(diagnostic_recs) \div Len(diagnostic_recs)
        overall_confidence ==
            phase2_confidence * 4 + kb_confidence * 40 + diagnostic_confidence * 20
    IN  [phase2_confidence |-> Round3(phase2_confidence),
         knowledge_base_confidence |-> kb_confidence,
         diagnostic_confidence |-> diagnostic_confidence,
         overall_confidence |-> Round3Of5(overall_confidence),
         confidence_level |-> IF overall_confidence > 80000 THEN "high"
                              ELSE IF overall_confidence > 60000 THEN "medium"
                              ELSE "low"]

-----------------------------------------------------------------------------
(***************************************************************************)
(* SpecKb: one KnowledgeBaseService and its store.  search_procedures      *)
(* (lines 66-103) sends its SELECTs one after the other; the server may    *)
(* stop or start answering between two of them.  After a search that      *)
(* returned, RevivaTechPhase3NLU asks for the diagnostic recommendations   *)
(* and computes the confidence metrics (nlu_service_phase3.py:76-95).      *)
(***************************************************************************)
MaxSearches == 2

\* The stores the service is run against.
Stores == SUBSET Catalogue

\* No EnhancedDeviceMatcher call is observed.
IdleMatcher ==
    /\ cache = <<>>
    /\ wtext = "my phone is broken"
    /\ wua = NoHeader
    /\ ncalls = 0
    /\ first = {}
    /\ last = {}

\* Lines 26-42: __init__ connects once.
InitKb ==
    /\ store \in Stores
    /\ dbUp \in BOOLEAN
    /\ connection = ConnectDatabase(dbUp)
    /\ kpc = "idle"
    /\ kquery = {}
    /\ exact = <<>>
    /\ fuzzy = <<>>
    /\ generic = <<>>
    /\ qlast = {}
    /\ out = {}
    /\ nsearch = 0
    /\ IdleMatcher
    /\ IdleRace
    /\ IdlePipe
    /\ IdleUnits

\* Lines 66-79: search_procedures is called; the criteria are built.
BeginSearch ==
    /\ kpc = "idle"
    /\ nsearch < MaxSearches
    /\ \E q \in Queries : kquery' = {q}
    /\ kpc' = "exact"
    /\ exact' = <<>>
    /\ fuzzy' = <<>>
    /\ generic' = <<>>
    /\ out' = {}
    /\ UNCHANGED <<store, dbUp, connection, qlast, nsearch, matcherVars, raceVars, pipe, unitVars>>

\* Lines 147-152.
SearchExact ==
    /\ kpc = "exact"
    /\ LET r == ExecuteQuery(connection, dbUp)
       IN  /\ connection' = r.connection
           /\ qlast' = {QueryRecord(connection, dbUp, r)}
           /\ exact' = IF r.ok THEN ExactQuery(store, Val(kquery)) ELSE <<>>
    /\ kpc' = "fuzzy"
    /\ UNCHANGED <<store, dbUp, kquery, fuzzy, generic, out, nsearch,
                   matcherVars, raceVars, pipe, unitVars>>

\* Lines 167-170.
SearchFuzzy ==
    /\ kpc = "fuzzy"
    /\ LET r == ExecuteQuery(connection, dbUp)
       IN  /\ connection' = r.connection
           /\ qlast' = {QueryRecord(connection, dbUp, r)}
           /\ fuzzy' = IF r.ok THEN FuzzyQuery(store, Val(kquery)) ELSE <<>>
    /\ kpc' = "generic"
    /\ UNCHANGED <<store, dbUp, kquery, exact, generic, out, nsearch,
                   matcherVars, raceVars, pipe, unitVars>>

\* Lines 181-184.
SearchGeneric ==
    /\ kpc = "generic"
    /\ LET r == ExecuteQuery(connection, dbUp)
       IN  /\ connection' = r.connection
           /\ qlast' = {QueryRecord(connection, dbUp, r)}
           /\ generic' = IF r.ok THEN GenericQuery(store, Val(kquery)) ELSE <<>>
    /\ kpc' = "rank"
    /\ UNCHANGED <<store, dbUp, kquery, exact, fuzzy, out, nsearch,
                   matcherVars, raceVars, pipe, unitVars>>

\* Lines 186-196 and 84-103: merge, rank, enhance (two more SELECTs for each
\* of the top candidates) and return; an exception of the ranking leaves
\* search_procedures.
SearchFinish ==
    /\ kpc = "rank"
    /\ LET q == Val(kquery)
           all_results == exact \o fuzzy \o generic
           procedures == Dedup(all_results)
       IN  IF \E i \in 1..Len(procedures) : ScoreRaises(procedures[i])
           THEN /\ out' = {[raised |-> TRUE, all_results |-> all_results,
                            procedures |-> procedures,
                            generic_ok |-> \A c \in qlast : c.ok]}
                /\ kpc' = "idle"
                /\ UNCHANGED <<connection, qlast>>
           ELSE LET ranked == RankProcedures(procedures, q)
                    enhanced == EnhanceProcedureResults(ranked)
                    r1 == ExecuteQuery(connection, dbUp)
                    r2 == ExecuteQuery(r1.connection, dbUp)
                IN  /\ out' = {[raised |-> FALSE, all_results |-> all_results,
                                procedures |-> procedures,
                                generic_ok |-> \A c \in qlast : c.ok,
                                scored |-> [i \in 1..Len(procedures) |->
                                               Scored(procedures[i], q)],
                                ranked |-> ranked,
                                total_found |-> Len(procedures),
                                ranked_results |-> enhanced,
                                knowledge_base_confidence |->
                                    CalculateKnowledgeConfidence(enhanced),
                                confidence_metrics |-> {}]}
                    /\ kpc' = "diagnose"
                    /\ IF enhanced = <<>>
                       THEN UNCHANGED <<connection, qlast>>
                       ELSE /\ connection' = r2.connection
                            /\ qlast' = {QueryRecord(r1.connection, dbUp, r2)}
    /\ nsearch' = nsearch + 1
    /\ UNCHANGED <<store, dbUp, kquery, exact, fuzzy, generic,
                   matcherVars, raceVars, pipe, unitVars>>

\* knowledge_base_service.py:458-507 and nlu_service_phase3.py:76-95: the
\* rules query, then the confidence metrics of the request.
Diagnose ==
    /\ kpc = "diagnose"
    /\ LET r == ExecuteQuery(connection, dbUp)
           o == Val(out)
       IN  /\ connection' = r.connection
           /\ qlast' = {QueryRecord(connection, dbUp, r)}
           /\ \E recs \in (IF r.ok THEN DiagnosticAnswers ELSE {<<>>}) :
                  out' = {[o EXCEPT !.confidence_metrics =
                              {CalculateEnhancedConfidence(
                                   Val(kquery).overall_confidence,
                                   o.knowledge_base_confidence, recs)}]}
    /\ kpc' = "idle"
    /\ UNCHANGED <<store, dbUp, kquery, exact, fuzzy, generic, nsearch,
                   matcherVars, raceVars, pipe, unitVars>>

\* The server stops answering: a connection that was open is lost.
DbDown ==
    /\ dbUp
    /\ dbUp' = FALSE
    /\ connection' = IF connection = "open" THEN "broken" ELSE connection
    /\ UNCHANGED <<store, kpc, kquery, exact, fuzzy, generic, qlast, out, nsearch,
                   matcherVars, raceVars, pipe, unitVars>>

\* The server answers again.
DbUp ==
    /\ ~dbUp
    /\ dbUp' = TRUE
    /\ UNCHANGED <<store, connection, kpc, kquery, exact, fuzzy, generic, qlast,
                   out, nsearch, matcherVars, raceVars, pipe, unitVars>>

NextKb ==
    \/ BeginSearch
    \/ SearchExact
    \/ SearchFuzzy
    \/ SearchGeneric
    \/ SearchFinish
    \/ Diagnose
    \/ DbDown
    \/ DbUp

SpecKb == InitKb /\ [][NextKb]_vars

-----------------------------------------------------------------------------
(***************************************************************************)
(* Properties of KnowledgeBaseService, checked under SpecKb.               *)
(***************************************************************************)
InUnit(x) == 0 <= x /\ x <= 1000

\* C1: every confidence or score a returned result carries lies in [0,1]:
\* each candidate's relevance_score, each entry of its scoring_breakdown,
\* knowledge_base_confidence and overall_confidence.
ScoresInUnitInterval ==
    \A o \in out :
        ~o.raised =>
            /\ \A i \in 1..Len(o.ranked_results) :
                  LET c == o.ranked_results[i]
                  IN  /\ InUnit(c.relevance_score)
                      /\ InUnit(c.scoring_breakdown.device_compatibility)
                      /\ InUnit(c.scoring_breakdown.problem_relevance)
                      /\ InUnit(c.scoring_breakdown.quality_metrics)
                      /\ InUnit(c.scoring_breakdown.search_relevance)
            /\ InUnit(o.knowledge_base_confidence)
            /\ \A m \in o.confidence_metrics : InUnit(m.overall_confidence)

\* The first place of an id in a list of rows.
FirstAt(rows, id) ==
    CHOOSE k \in 1..Len(rows) :
        rows[k].id = id /\ \A m \in 1..(k - 1) : rows[m].id # id

\* C2: the merged list of _search_procedures_database holds each procedure id
\* of the three answers exactly once; the record kept for an id is the one of
\* the earliest strategy that returned it (exact, then fuzzy, then generic),
\* and the kept records stand in the order of the concatenation.
DedupKeepsEarliest ==
    \A o \in out :
        LET a == o.all_results
            p == o.procedures
        IN  /\ \A i, j \in 1..Len(p) : p[i].id = p[j].id => i = j
            /\ {p[i].id : i \in 1..Len(p)} = {a[k].id : k \in 1..Len(a)}
            /\ \A i \in 1..Len(p) : p[i] = a[FirstAt(a, p[i].id)]
            /\ \A i, j \in 1..Len(p) :
                  i < j => FirstAt(a, p[i].id) < FirstAt(a, p[j].id)

\* A search in which one procedure came back from all three strategies.
DedupMergedThreeStrategies ==
    \E o \in out :
        /\ Len(o.procedures) >= 2
        /\ \E i \in 1..Len(exact), j \in 1..Len(fuzzy), k \in 1..Len(generic) :
              /\ exact[i].id = fuzzy[j].id
              /\ exact[i].id = generic[k].id
              /\ o.all_results = exact \o fuzzy \o generic

\* C7: when the three strategies return no row, or the store cannot be
\* reached, search_procedures raises nothing and returns ranked_results = []
\* with knowledge_base_confidence = 0.0, and _calculate_enhanced_confidence
\* on that result returns its metrics, the knowledge-base part being 0.
NoDataDegradesToEmpty ==
    \A o \in out :
        o.all_results = <<>> =>
            /\ ~o.raised
            /\ o.ranked_results = <<>>
            /\ o.total_found = 0
            /\ o.knowledge_base_confidence = 0
            /\ kpc = "idle" =>
                  /\ o.confidence_metrics # {}
                  /\ \A m \in o.confidence_metrics :
                        /\ m.knowledge_base_confidence = 0
                        /\ InUnit(m.overall_confidence)

\* A request finished on a store that holds rows and could not be reached
\* during any of the three queries.
NoDataUnreachableReached ==
    \E o \in out :
        /\ o.all_results = <<>>
        /\ kpc = "idle"
        /\ store # {}
        /\ ExactQuery(store, Val(kquery)) # <<>>
        /\ o.confidence_metrics # {}

\* C8 as stated: a query that fails makes _execute_query set the connection
\* up again and run the query once more, so that a call made while the server
\* answers returns its rows.
QueryRetriedOnce ==
    \A c \in qlast :
        /\ ~c.raised
        /\ c.failed => c.attempts = 2 /\ c.connects >= 1
        /\ c.up => c.ok

\* C8, as the code has it: _execute_query runs the query once per call and
\* never again; it connects once, before the query, only when no connection
\* object is held; a failure returns [] and raises nothing; a connection
\* object that lost its server is kept, and every later query on it fails.
QuerySingleAttempt ==
    \A c \in qlast :
        /\ ~c.raised
        /\ c.attempts = 1
        /\ c.connects = (IF c.before = "none" THEN 1 ELSE 0)
        /\ c.failed = ~c.ok
        /\ c.before = "broken" => c.after = "broken" /\ ~c.ok

\* A query failed on a lost connection although the server answers again.
QueryFailedAfterOutage ==
    \E c \in qlast : c.before = "broken" /\ c.up /\ c.failed

\* The place of a candidate in a ranked list.
PlaceOf(ranked, id) == CHOOSE k \in 1..Len(ranked) : ranked[k].id = id

\* C10: _rank_procedures returns a permutation of its input in non-increasing
\* order of relevance_score, and two candidates of equal relevance_score keep
\* the order they had in the input.
RankStableDescending ==
    \A o \in out :
        ~o.raised =>
            LET s == o.scored
                r == o.ranked
            IN  /\ Len(r) = Len(s)
                /\ {r[i] : i \in 1..Len(r)} = {s[i] : i \in 1..Len(s)}
                /\ \A i, j \in 1..Len(r) :
                      i < j => r[i].relevance_score >= r[j].relevance_score
                /\ \A i, j \in 1..Len(s) :
                      (i < j /\ s[i].relevance_score = s[j].relevance_score)
                          => PlaceOf(r, s[i].id) < PlaceOf(r, s[j].id)

\* A ranking that moved a candidate and had two candidates of equal score.
RankReorderedWithTie ==
    \E o \in out :
        /\ ~o.raised
        /\ o.ranked # o.scored
        /\ \E i, j \in 1..Len(o.scored) :
              i < j /\ o.scored[i].relevance_score = o.scored[j].relevance_score

\* The candidates of the search on which a score raises.
Raising(o) == {i \in 1..Len(o.procedures) : ScoreRaises(o.procedures[i])}

\* C12: when a candidate's device_compatibility is malformed (a string that
\* is not JSON, or JSON that is not an object with list fields),
\* _score_device_compatibility treats it as empty and returns a score
\* without raising, and the ranking of the candidates proceeds.
MalformedCompatibilityIsEmpty ==
    \A o \in out :
        \A i \in 1..Len(o.procedures) :
            /\ o.procedures[i].proc.device_compatibility.json # "object"
            /\ \A j \in 1..Len(o.procedures) : ~QualityRaises(o.procedures[j].proc)
            => /\ ~o.raised
               /\ o.scored[i].scoring_breakdown.device_compatibility = 0

\* C13: when a sub-score raises for one candidate of _rank_procedures, only
\* that candidate is dropped and the others are ranked; when every
\* candidate is dropped, a fallback entry is returned instead of an empty
\* list.
RaisingCandidateDroppedAlone ==
    \A o \in out :
        Raising(o) # {} =>
            /\ ~o.raised
            /\ {o.ranked[k].id : k \in 1..Len(o.ranked)}
                   = {o.procedures[i].id : i \in (1..Len(o.procedures)) \ Raising(o)}
            /\ Raising(o) = 1..Len(o.procedures) => o.ranked_results # <<>>

\* C18: when the generic query was answered by a store that holds a
\* published procedure whose types include the detected device type, the
\* deduplicated candidate list, and so ranked_results, is not empty,
\* whatever the exact and fuzzy strategies returned.
GenericFallbackNonEmpty ==
    \A o \in out :
        /\ kpc \in {"idle", "diagnose"}
        /\ o.generic_ok
        /\ \A i \in 1..Len(o.procedures) : ~QualityRaises(o.procedures[i].proc)
        /\ \E p \in store :
              /\ p.status = "published"
              /\ Val(kquery).device_info.type \in p.device_compatibility.types
        => /\ o.procedures # <<>>
           /\ ~o.raised
           /\ o.ranked_results # <<>>

\* The candidate list alone: it is not empty under the same conditions, and
\* neither is ranked_results when the ranking returned.
GenericFallbackCandidates ==
    \A o \in out :
        /\ kpc \in {"idle", "diagnose"}
        /\ o.generic_ok
        /\ \E p \in store :
              /\ p.status = "published"
              /\ Val(kquery).device_info.type \in p.device_compatibility.types
        => o.procedures # <<>> /\ (~o.raised => o.ranked_results # <<>>)

-----------------------------------------------------------------------------
(***************************************************************************)
(* SpecPipeline: one request through process_message_with_knowledge        *)
(* (nlu_service_phase3.py:50-145), called directly or through              *)
(* process_message_api (nlu_api_phase3.py:24-48).  Any stage may raise.    *)
(***************************************************************************)
\* The messages of the requests; None is a request without a message.
Messages == {"My iPhone 14 Pro screen is cracked", "battery drain", "", None}

\* The stages after phase 2, in the order of lines 69-137, and the stage
\* that follows each.
Stages == <<"search", "diagnose", "respond", "confidence", "metrics", "compile", "log">>
StageAfter(stage) ==
    CASE stage = "phase2" -> "search"
      [] stage = "search" -> "diagnose"
      [] stage = "diagnose" -> "respond"
      [] stage = "respond" -> "confidence"
      [] stage = "confidence" -> "metrics"
      [] stage = "metrics" -> "compile"
      [] stage = "compile" -> "log"
      [] stage = "log" -> "return"

\* The statements between `try:` (line 61) and `except Exception` (line 144).
TryBlock == {"phase2", "search", "diagnose", "respond", "confidence", "metrics",
             "compile", "log"}

\* A pipeline whose logging stage has no handler of its own.
AbsorbingPhase2Only == {"phase2"}

\* A stage whose own handler absorbs what is raised inside it:
\* process_message_enhanced (nlu_service_enhanced.py:120, 174-181) and
\* _log_interaction (nlu_service_phase3.py:406-415).
Absorbing == {"phase2", "log"}

\* What can fail inside log_knowledge_base_interaction
\* (knowledge_base_service.py:509-538): the INSERT run by _execute_query
\* (line 529) and self.connection.commit() (line 535).
LogFaults == {"insert", "commit"}

\* A fallback payload that names no action.
HandleErrorBare(message, error) ==
    [error |-> TRUE,
     error_message |-> "Phase 3 processing error: " \o error,
     fallback_response |->
         [message |-> "I encountered an issue processing your request.",
          recommended_actions |-> <<>>,
          confidence |-> 100,
          response_type |-> "error_fallback"],
     phase |-> "3_error_fallback"]

\* _handle_error (nlu_service_phase3.py:417-441).
HandleError(message, error) ==
    [error |-> TRUE,
     error_message |-> "Phase 3 processing error: " \o error,
     fallback_response |->
         [message |-> "I encountered an issue processing your request. Please try rephrasing your question or contact our support team.",
          recommended_actions |-> <<"Contact customer support",
                                    "Try a different description",
                                    "Visit our service center">>,
          confidence |-> 100,
          response_type |-> "error_fallback"],
     phase |-> "3_error_fallback"]

\* The except clause of process_message_api (nlu_api_phase3.py:38-48).
ApiFallback(error) ==
    [error |-> TRUE,
     error_message |-> error,
     fallback_response |->
         [message |-> "Unable to process request. Please try again.",
          recommended_actions |-> <<"Contact support", "Try rephrasing">>,
          confidence |-> 100],
     phase |-> "3_error"]

\* Lines 100-136: the result of a request no stage of which raised.
Phase3Result(phase2_status) ==
    [error |-> FALSE,
     phase2_analysis |-> [status |-> phase2_status],
     integration_status |-> [phase2_status |-> "success"],
     phase |-> "3_knowledge_integrated"]

InitPipeline ==
    /\ pipe = [pc |-> "idle"]
    /\ IdleMatcher
    /\ IdleRace
    /\ IdleKb
    /\ IdleUnits

\* A caller calls process_message_api or process_message_with_knowledge.
BeginRequest ==
    /\ pipe.pc = "idle"
    /\ \E api \in BOOLEAN, message \in Messages :
          pipe' = [pc |-> IF api THEN "construct" ELSE "phase2",
                   api |-> api, message |-> message,
                   phase2_status |-> None, raised |-> None, absorbed |-> {},
                   log_fault |-> None, result |-> {}]
    /\ UNCHANGED <<matcherVars, raceVars, kbVars, unitVars>>

\* nlu_api_phase3.py:30: RevivaTechPhase3NLU() inside the wrapper's try.
ApiConstruct ==
    /\ pipe.pc = "construct"
    /\ \/ pipe' = [pipe EXCEPT !.pc = "phase2"]
       \/ pipe' = [pipe EXCEPT !.pc = "done", !.raised = "construct",
                               !.result = {ApiFallback("construct")}]
    /\ UNCHANGED <<matcherVars, raceVars, kbVars, unitVars>>

\* Line 63: process_message_enhanced returns its analysis, or the error
\* dictionary of its own except clause.
Phase2 ==
    /\ pipe.pc = "phase2"
    /\ \/ pipe' = [pipe EXCEPT !.pc = StageAfter("phase2"),
                               !.phase2_status = "success"]
       \/ pipe' = [pipe EXCEPT !.pc = StageAfter("phase2"),
                               !.phase2_status = "error",
                               !.absorbed = @ \cup {"phase2"}]
    /\ UNCHANGED <<matcherVars, raceVars, kbVars, unitVars>>

\* Lines 69-142: a stage runs to its end, or raises; what it raises goes to
\* the except clause when the stage stands in the try block.
RunStage(stage) ==
    /\ pipe.pc = stage
    /\ \/ pipe' = [pipe EXCEPT !.pc = StageAfter(stage)]
       \/ /\ stage \in Absorbing
          /\ \E fault \in LogFaults :
                pipe' = [pipe EXCEPT !.pc = StageAfter(stage),
                                     !.absorbed = @ \cup {stage},
                                     !.log_fault = fault]
       \/ /\ stage \notin Absorbing
          /\ pipe' = [pipe EXCEPT !.pc = IF stage \in TryBlock THEN "except"
                                         ELSE "escaped",
                                  !.raised = stage]
    /\ UNCHANGED <<matcherVars, raceVars, kbVars, unitVars>>

\* Lines 144-145: return self._handle_error(...).
Except ==
    /\ pipe.pc = "except"
    /\ pipe' = [pipe EXCEPT !.pc = "done",
                            !.result = {HandleError(pipe.message, pipe.raised)}]
    /\ UNCHANGED <<matcherVars, raceVars, kbVars, unitVars>>

\* Line 142: return phase3_result.
Return ==
    /\ pipe.pc = "return"
    /\ pipe' = [pipe EXCEPT !.pc = "done",
                            !.result = {Phase3Result(pipe.phase2_status)}]
    /\ UNCHANGED <<matcherVars, raceVars, kbVars, unitVars>>

NextPipeline ==
    \/ BeginRequest
    \/ ApiConstruct
    \/ Phase2
    \/ \E i \in 1..Len(Stages) : RunStage(Stages[i])
    \/ Except
    \/ Return

SpecPipeline == InitPipeline /\ [][NextPipeline]_vars

\* C6: process_message_with_knowledge, called directly or through
\* process_message_api, lets no exception escape and ends with a structured
\* result; when a stage raised, that result is the fallback payload: error
\* set, confidence 0.1, a message and a non-empty list of default actions.
PipelineAlwaysReturns ==
    /\ pipe.pc # "escaped"
    /\ pipe.pc = "done" =>
          /\ pipe.result # {}
          /\ pipe.raised # None =>
                \A r \in pipe.result :
                    /\ r.error
                    /\ r.fallback_response.confidence = 100
                    /\ r.fallback_response.message # ""
                    /\ r.fallback_response.recommended_actions # <<>>

\* A direct call whose confidence stage raised after phase 2 had absorbed a
\* fault of its own.
PipelineFaultHandled ==
    /\ pipe.pc = "done"
    /\ ~pipe.api
    /\ pipe.raised = "confidence"
    /\ "phase2" \in pipe.absorbed

\* C19: a failure of the interaction-log INSERT or of its commit never
\* changes the result of process_message_with_knowledge: the request
\* returns what it returns when logging succeeds, and the error fallback is
\* never returned because logging failed.
LoggingNeverChangesResult ==
    /\ pipe.pc \in {"except", "done"} => pipe.raised # "log"
    /\ pipe.pc = "done" /\ pipe.log_fault # None =>
          /\ pipe.raised = None
          /\ pipe.result = {Phase3Result(pipe.phase2_status)}
          /\ \A r \in pipe.result : ~r.error

\* A direct call has returned after the commit of its log record failed.
LogCommitFailed ==
    /\ pipe.pc = "done"
    /\ ~pipe.api
    /\ pipe.log_fault = "commit"
    /\ pipe.phase2_status = "success"

-----------------------------------------------------------------------------
(***************************************************************************)
(* SpecQuality: one call of _score_quality_metrics on one row.  The row's  *)
(* quality_score (tenths, 0.0 to 5.0) and success_rate (percent) may be    *)
(* NULL; view_count is a number of views.                                  *)
(***************************************************************************)
QualityScores == {{}, {0}, {25}, {45}, {50}}
SuccessRates == {{}, {0}, {50}, {92}, {100}}
ViewCounts == {{0}, {40}, {100}, {200}, {250}}

InitQuality ==
    /\ \E quality \in QualityScores, success \in SuccessRates, views \in ViewCounts :
          qm = [pc |-> "call",
                procedure |-> [quality_score |-> quality, success_rate |-> success,
                               view_count |-> views],
                score |-> {}]
    /\ nlu = [pc |-> "idle"]
    /\ mlpass = [pc |-> "idle"]
    /\ perf = [pc |-> "idle"]
    /\ IdleMatcher
    /\ IdleRace
    /\ IdleKb
    /\ IdlePipe

QualityCall ==
    /\ qm.pc = "call"
    /\ qm' = [qm EXCEPT !.pc = "done",
                        !.score = {ScoreQualityMetrics(qm.procedure)}]
    /\ UNCHANGED <<matcherVars, raceVars, kbVars, pipe, nlu, mlpass, perf>>

NextQuality == QualityCall

SpecQuality == InitQuality /\ [][NextQuality]_vars

-----------------------------------------------------------------------------
(***************************************************************************)
(* RevivaTechEnhancedNLU.process_message_enhanced                          *)
(* (nlu_service_enhanced.py:107-181) on one message.  severity,            *)
(* repair_time, repair_insights and the performance counters are left out: *)
(* no claim reads them.                                                    *)
(***************************************************************************)
NluMessages ==
    { "hello there",
      "good morning",
      "how much to fix it",
      "my screen flashes",
      "my phone is broken",
      "samsung phone broken",
      "my imac is slow",
      "My iPhone 14 Pro screen is cracked",
      "Samsung Galaxy S24 battery issues" }

\* self.enhanced_problem_patterns in dictionary order (lines 80-105).
EnhancedProblemCategories ==
    <<"screen_damage", "battery_issues", "water_damage", "audio_problems",
      "performance_issues", "connectivity_issues">>

\* The categories one of whose patterns is a substring of the lower-cased
\* message (line 198).
ProblemPatternHits(ml) ==
    CASE ml = "my phone is broken"                 -> {"screen_damage"}
      [] ml = "samsung phone broken"               -> {"screen_damage"}
      [] ml = "my iphone 14 pro screen is cracked" -> {"screen_damage"}
      [] ml = "my imac is slow"                    -> {"performance_issues"}
      [] OTHER -> {}

\* category.replace("_", " ").title()
CategoryTitle(category) ==
    CASE category = "screen_damage"       -> "Screen Damage"
      [] category = "battery_issues"      -> "Battery Issues"
      [] category = "water_damage"        -> "Water Damage"
      [] category = "audio_problems"      -> "Audio Problems"
      [] category = "performance_issues"  -> "Performance Issues"
      [] category = "connectivity_issues" -> "Connectivity Issues"
      [] OTHER -> category

\* `word in device_match.model.lower()` on the model names of the model.
ModelContains(word, model) ==
    \/ word = "iphone" /\ model \in {"iPhone 14", "iPhone"}
    \/ word = "imac" /\ model \in {"iMac 24", "iMac 21.5"}

Problem(category, issue, confidence) ==
    [category |-> category, issue |-> issue, confidence |-> confidence]

\* The confidence of a pattern with 0.05 for a confidently matched device.
ProblemConfidenceHalfBonus(category, device_match) ==
    800 + (IF device_match.confidence > 800 THEN 50 ELSE 0)
        + (IF /\ Lower(device_match.brand) = "apple"
              /\ \/ category = "screen_damage" /\ ModelContains("iphone", device_match.model)
                 \/ category = "battery_issues" /\ ModelContains("macbook", device_match.model)
           THEN 50 ELSE 0)

\* Lines 199-206: the confidence of a pattern of the category.
ProblemConfidence(category, device_match) ==
    800 + (IF device_match.confidence > 800 THEN 100 ELSE 0)
        + (IF /\ Lower(device_match.brand) = "apple"
              /\ \/ category = "screen_damage" /\ ModelContains("iphone", device_match.model)
                 \/ category = "battery_issues" /\ ModelContains("macbook", device_match.model)
           THEN 50 ELSE 0)

\* Lines 196-215: the loop over the categories from the k-th on.
RECURSIVE ScanProblems(_, _, _, _)
ScanProblems(hits, device_match, k, best_problem) ==
    IF k > Len(EnhancedProblemCategories) THEN best_problem
    ELSE LET category == EnhancedProblemCategories[k]
             confidence == ProblemConfidence(category, device_match)
         IN  ScanProblems(hits, device_match, k + 1,
                 IF category \in hits /\ confidence > best_problem.confidence
                 THEN Problem(CategoryTitle(category), category, Min(confidence, 950))
                 ELSE best_problem)

\* Which word list of _extract_problem_fallback has a word in the message.
FallbackWords(ml) ==
    CASE ml = "my iphone 14 pro screen is cracked" -> "screen"
      [] ml = "my screen flashes"                  -> "screen"
      [] ml = "samsung galaxy s24 battery issues"  -> "battery"
      [] OTHER -> None

\* _extract_problem_fallback (lines 326-336).
ExtractProblemFallback(ml) ==
    CASE FallbackWords(ml) = "screen"  -> Problem("Screen", "screen_damage", 600)
      [] FallbackWords(ml) = "battery" -> Problem("Battery", "battery_issues", 600)
      [] OTHER -> Problem("General", "unknown_issue", 200)

\* An extraction that keeps its initial best_problem when no pattern matched.
ExtractProblemInfoNoFallback(ml, device_match) ==
    ScanProblems(ProblemPatternHits(ml), device_match, 1,
                 Problem("General", "unknown_issue", 100))

\* extract_problem_info_enhanced (lines 183-223).
ExtractProblemInfoEnhanced(ml, device_match) ==
    LET best_problem == ScanProblems(ProblemPatternHits(ml), device_match, 1,
                                     Problem("General", "unknown_issue", 100))
        fallback_result == ExtractProblemFallback(ml)
    IN  IF /\ best_problem.confidence < 500
           /\ fallback_result.confidence > best_problem.confidence
        THEN fallback_result
        ELSE best_problem

\* enhanced_intents in dictionary order (lines 230-251).
EnhancedIntents ==
    <<"booking_request", "price_inquiry", "problem_diagnosis", "service_inquiry",
      "general_inquiry">>

\* The intents one of whose patterns is a substring of the lower-cased
\* message (line 258); none of the messages has "urgent", "asap" or "soon".
IntentHits(ml) ==
    CASE ml = "hello there"                       -> {"general_inquiry"}
      [] ml = "how much to fix it"                -> {"booking_request", "price_inquiry"}
      [] ml = "my phone is broken"                -> {"problem_diagnosis"}
      [] ml = "samsung phone broken"              -> {"problem_diagnosis"}
      [] ml = "samsung galaxy s24 battery issues" -> {"problem_diagnosis"}
      [] OTHER -> {}

\* Lines 259-271: max_confidence of an intent with a matching pattern.
IntentConfidence(intent, device_match) ==
    700 + (IF device_match.confidence > 800 THEN 100 ELSE 0)
        + (IF intent = "price_inquiry" /\ device_match.brand # "Unknown"
           THEN 50 ELSE 0)

\* Lines 255-274: the loop over the intents from the k-th on.
RECURSIVE ScanIntents(_, _, _, _)
ScanIntents(hits, device_match, k, best_intent) ==
    IF k > Len(EnhancedIntents) THEN best_intent
    ELSE LET intent == EnhancedIntents[k]
             max_confidence == IF intent \in hits
                               THEN IntentConfidence(intent, device_match) ELSE 0
         IN  ScanIntents(hits, device_match, k + 1,
                 IF max_confidence > best_intent.confidence
                 THEN [intent |-> intent, confidence |-> Min(max_confidence, 950)]
                 ELSE best_intent)

\* classify_intent_enhanced (lines 225-276).
ClassifyIntentEnhanced(ml, device_match) ==
    ScanIntents(IntentHits(ml), device_match, 1,
                [intent |-> "general_inquiry", confidence |-> 300])

\* _determine_response_type (lines 312-324), the confidence in
\* hundred-thousandths.
DetermineResponseType(confidence, intent_info) ==
    IF confidence > 80000
    THEN CASE intent_info.intent = "booking_request" -> "booking_guidance"
           [] intent_info.intent = "price_inquiry" -> "price_estimate"
           [] OTHER -> "detailed_guidance"
    ELSE IF confidence > 50000 THEN "clarification_needed"
    ELSE "general_guidance"

\* Lines 121-169: the result of a call on a matcher with an empty cache;
\* overall_confidence is in hundred-thousandths.
ProcessMessageEnhanced(message, user_agent) ==
    LET device_match == MatchDeviceHybrid(<<>>, message, user_agent).res
        problem_info == ExtractProblemInfoEnhanced(TextLower(message), device_match)
        intent_info == ClassifyIntentEnhanced(TextLower(message), device_match)
        overall_confidence == device_match.confidence * 40
                                  + problem_info.confidence * 35
                                  + intent_info.confidence * 25
    IN  [status |-> "success", phase |-> "2_enhanced",
         device |-> device_match, problem |-> problem_info, intent |-> intent_info,
         overall_confidence |-> overall_confidence,
         response_type |-> DetermineResponseType(overall_confidence, intent_info)]

(***************************************************************************)
(* SpecNlu: one call of process_message_enhanced.                          *)
(***************************************************************************)
InitNlu ==
    /\ \E message \in NluMessages, user_agent \in Headers :
          nlu = [pc |-> "call", message |-> message, user_agent |-> user_agent,
                 result |-> {}]
    /\ qm = [pc |-> "idle"]
    /\ mlpass = [pc |-> "idle"]
    /\ perf = [pc |-> "idle"]
    /\ IdleMatcher
    /\ IdleRace
    /\ IdleKb
    /\ IdlePipe

NluCall ==
    /\ nlu.pc = "call"
    /\ nlu' = [nlu EXCEPT !.pc = "done",
                          !.result = {ProcessMessageEnhanced(nlu.message, nlu.user_agent)}]
    /\ UNCHANGED <<matcherVars, raceVars, kbVars, pipe, qm, mlpass, perf>>

NextNlu == NluCall

SpecNlu == InitNlu /\ [][NextNlu]_vars

\* The message matches no device pattern, no brand alias and no problem
\* keyword, and the call carries no user-agent header.
NoSignal ==
    /\ nlu.user_agent = NoHeader
    /\ PatternHits(TextLower(nlu.message)) = {}
    /\ DetectBrand(TextLower(nlu.message)) = None
    /\ ProblemPatternHits(TextLower(nlu.message)) = {}
    /\ FallbackWords(TextLower(nlu.message)) = None

\* The call returned a result whose device is the sentinel (Unknown,
\* confidence 0.1) and whose problem is General / unknown_issue with the
\* confidence given.
Sentinels(confidence) ==
    \A r \in nlu.result :
        /\ r.status = "success"
        /\ r.device = UnknownDevice("text")
        /\ r.problem = Problem("General", "unknown_issue", confidence)

\* C11 as stated: a message that matches no device pattern, no brand alias
\* and no problem keyword, with no user-agent header, yields the device
\* sentinel (brand Unknown, confidence 0.1) and the problem sentinel with
\* confidence 0.1, and no exception.
NoSignalProblemTenth == nlu.pc = "done" /\ NoSignal => Sentinels(100)

\* C11: such a message yields the device sentinel (brand Unknown,
\* confidence 0.1) and the problem General / unknown_issue with confidence
\* 0.2, the value of _extract_problem_fallback, and no exception.
NoSignalSentinels == nlu.pc = "done" /\ NoSignal => Sentinels(200)

\* A call on a greeting without a header has returned.
NoSignalProcessed ==
    /\ nlu.pc = "done"
    /\ NoSignal
    /\ nlu.message = "hello there"
    /\ nlu.result # {}

\* The device-specific nudge: a screen problem on an iPhone, a battery
\* problem on a MacBook.
DeviceNudge(category, device) ==
    IF /\ device.brand = "Apple"
       /\ \/ category = "screen_damage" /\ ModelContains("iphone", device.model)
          \/ category = "battery_issues" /\ ModelContains("macbook", device.model)
    THEN 50 ELSE 0

\* Every keyword hit is scored 0.8, plus the bonus when the device
\* confidence is above 0.8, plus the nudge, and the best one is stored
\* capped at 0.95; the fallback heuristic answers exactly the messages
\* without a hit.
ProblemScale(bonus) ==
    \A r \in nlu.result :
        LET ml == TextLower(nlu.message)
            hits == ProblemPatternHits(ml)
            score(c) == 800 + (IF r.device.confidence > 800 THEN bonus ELSE 0)
                            + DeviceNudge(c, r.device)
        IN  IF hits # {}
            THEN /\ r.problem.issue \in hits
                 /\ r.problem.category = CategoryTitle(r.problem.issue)
                 /\ \A c \in hits : r.problem.confidence >= Min(950, score(c))
                 /\ r.problem.confidence = Min(950, score(r.problem.issue))
            ELSE /\ r.problem.category \in {"Screen", "Battery", "General"}
                 /\ r.problem.confidence =
                        (IF FallbackWords(ml) # None THEN 600 ELSE 200)

\* C27 as stated: each category-keyword hit scores 0.8, plus 0.05 when the
\* device confidence is above 0.8, plus the device nudge of 0.05, stored
\* capped at 0.95; the fallback (0.6 screen or battery, 0.2 general) is used
\* only when the best confidence is below 0.5.
HitPlusHalfTenth == ProblemScale(50)

\* C27: each category-keyword hit scores 0.8, plus 0.1 when the device
\* confidence is above 0.8, plus the device nudge of 0.05, stored capped at
\* 0.95; the fallback (0.6 screen or battery, 0.2 general) is used only when
\* the best confidence is below 0.5, that is when no keyword hit.
HitPlusTenth == ProblemScale(100)

\* A keyword hit on a confidently matched device without a nudge was
\* stored with 0.9.
ConfidentDeviceHitScored ==
    /\ nlu.pc = "done"
    /\ \E r \in nlu.result :
          /\ ProblemPatternHits(TextLower(nlu.message)) # {}
          /\ r.device.confidence > 800
          /\ DeviceNudge(r.problem.issue, r.device) = 0
          /\ r.problem.confidence = 900

-----------------------------------------------------------------------------
(***************************************************************************)
(* Further properties of KnowledgeBaseService, checked under SpecKb.       *)
(***************************************************************************)
\* The number of results with a relevance_score above 0.7.
GoodMatches(results) ==
    Cardinality({i \in 1..Len(results) : results[i].relevance_score > 700})

\* The top score, plus the boost, minus the penalty when no result reaches
\* 0.8.
RawKnowledgeConfidence(results) ==
    results[1].relevance_score + Min(GoodMatches(results) * 50, 150)
        - (IF \E i \in 1..Len(results) : results[i].relevance_score >= 800
           THEN 0 ELSE 100)

\* C22: for every non-empty ranked result list, knowledge_base_confidence is
\* the top candidate's relevance_score plus min(0.05 * (candidates with score
\* > 0.7), 0.15), minus 0.1 when no candidate has score >= 0.8, clamped at
\* both ends to [0,1].
KnowledgeConfidenceClamped ==
    \A o \in out :
        (~o.raised /\ o.ranked_results # <<>>) =>
            o.knowledge_base_confidence =
                Max(0, Min(RawKnowledgeConfidence(o.ranked_results), 1000))

\* The same with the clamp at the upper end only.
KnowledgeConfidenceUpperClamped ==
    \A o \in out :
        (~o.raised /\ o.ranked_results # <<>>) =>
            o.knowledge_base_confidence =
                Min(RawKnowledgeConfidence(o.ranked_results), 1000)

\* C24: every candidate's relevance_score is 0.4*device_compatibility +
\* 0.3*problem_relevance + 0.2*quality_metrics + 0.1*min(search_rank, 1.0),
\* rounded to three places, and its scoring_breakdown holds the four
\* sub-scores that were combined.
RelevanceIsWeightedSum ==
    \A o \in out :
        ~o.raised =>
            \A i \in 1..Len(o.scored) :
                LET c == o.scored[i]
                    r == o.procedures[i]
                    b == c.scoring_breakdown
                    device == ScoreDeviceCompatibility(r.proc, Val(kquery).device_info)
                    problem == ScoreProblemRelevance(r.proc, Val(kquery))
                    quality == ScoreQualityMetrics(r.proc)
                    search == Min(r.search_rank, 1000)
                IN  /\ c.id = r.id
                    /\ c.relevance_score * 10 + 5 > device * 4 + problem * 3 + quality * 2 + search
                    /\ c.relevance_score * 10 - 5 <= device * 4 + problem * 3 + quality * 2 + search
                    /\ b = [device_compatibility |-> device,
                            problem_relevance |-> problem,
                            quality_metrics |-> quality,
                            search_relevance |-> search]

\* A candidate with a positive problem, quality and search score whose
\* device and problem scores differ was ranked.
AllFourSubScoresCombined ==
    \E o \in out :
        /\ ~o.raised
        /\ \E i \in 1..Len(o.ranked) :
              LET b == o.ranked[i].scoring_breakdown
              IN  /\ b.problem_relevance > 0
                  /\ b.quality_metrics > 0
                  /\ b.search_relevance > 0
                  /\ b.device_compatibility # b.problem_relevance
                  /\ o.ranked[i].relevance_score > 0

\* The stored quality_score of a candidate in tenths, below every score
\* when the column is NULL.
StoredQuality(o, id) ==
    LET p == o.procedures[FirstAt(o.procedures, id)].proc
    IN  IF p.quality_score = {} THEN -1 ELSE Val(p.quality_score)

\* C23 as stated: among ranked candidates of equal relevance_score, one with
\* a higher stored quality_score stands before one with a lower quality_score, and
\* only candidates equal in both keep their arrival order.
TiesBrokenByQuality ==
    \A o \in out :
        ~o.raised =>
            \A i, j \in 1..Len(o.ranked) :
                (i < j /\ o.ranked[i].relevance_score = o.ranked[j].relevance_score)
                    => \/ StoredQuality(o, o.ranked[i].id) > StoredQuality(o, o.ranked[j].id)
                       \/ /\ StoredQuality(o, o.ranked[i].id) = StoredQuality(o, o.ranked[j].id)
                          /\ FirstAt(o.procedures, o.ranked[i].id)
                                 < FirstAt(o.procedures, o.ranked[j].id)

\* C23: among ranked candidates of equal relevance_score the arrival order
\* is kept, whatever their stored quality_score: quality_score is no key of
\* the sort.
TiesKeepArrivalOrder ==
    \A o \in out :
        ~o.raised =>
            \A i, j \in 1..Len(o.ranked) :
                (i < j /\ o.ranked[i].relevance_score = o.ranked[j].relevance_score)
                    => FirstAt(o.procedures, o.ranked[i].id)
                           < FirstAt(o.procedures, o.ranked[j].id)

\* Two candidates of equal relevance_score were ranked, the one of lower
\* stored quality_score first.
LowerQualityRankedFirst ==
    \E o \in out :
        /\ ~o.raised
        /\ \E i, j \in 1..Len(o.ranked) :
              /\ i < j
              /\ o.ranked[i].relevance_score = o.ranked[j].relevance_score
              /\ StoredQuality(o, o.ranked[i].id) < StoredQuality(o, o.ranked[j].id)

\* The weighted sum of the three confidences in hundred-thousandths:
\* 0.4 * phase 2 + 0.4 * knowledge base + 0.2 * diagnostic, the last being
\* the value the metrics report.
WeightedConfidence(o, m) ==
    Val(kquery).overall_confidence * 4 + o.knowledge_base_confidence * 40
        + m.diagnostic_confidence * 20

LevelOf(x, high, medium) ==
    IF x > high THEN "high" ELSE IF x > medium THEN "medium" ELSE "low"

\* C25 as stated: overall_confidence is 0.4*phase2 + 0.4*knowledge base +
\* 0.2*diagnostic, and confidence_level is high exactly when the reported
\* overall_confidence is > 0.8, medium when it is > 0.6 and <= 0.8, low
\* otherwise.
LevelOfReportedConfidence ==
    \A o \in out :
        ~o.raised =>
            \A m \in o.confidence_metrics :
                /\ m.overall_confidence = Round3Of5(WeightedConfidence(o, m))
                /\ m.confidence_level = LevelOf(m.overall_confidence, 800, 600)

\* C25: overall_confidence is 0.4*phase2 + 0.4*knowledge base +
\* 0.2*diagnostic rounded to three places, and confidence_level is high
\* exactly when the sum before rounding is > 0.8, medium when it is > 0.6
\* and <= 0.8, low otherwise.
LevelOfUnroundedConfidence ==
    \A o \in out :
        ~o.raised =>
            \A m \in o.confidence_metrics :
                /\ m.overall_confidence = Round3Of5(WeightedConfidence(o, m))
                /\ m.confidence_level = LevelOf(WeightedConfidence(o, m), 80000, 60000)

\* The metrics report an overall_confidence of 0.8 with the level high: the
\* weighted sum was above 0.8 by less than half a thousandth.
HighAtReportedEightTenths ==
    \E o \in out :
        /\ ~o.raised
        /\ \E m \in o.confidence_metrics :
              /\ m.overall_confidence = 800
              /\ m.confidence_level = "high"
              /\ m.diagnostic_confidence > 0
              /\ o.knowledge_base_confidence > 0

-----------------------------------------------------------------------------
(***************************************************************************)
(* SpecMetrics: the counters of one RevivaTechPhase3NLU instance           *)
(* (nlu_service_phase3.py:43-46) over a sequence of                        *)
(* process_message_with_knowledge calls (lines 50-145).  The lists         *)
(* response_times and average_confidence are held by their lengths.        *)
(***************************************************************************)
MaxQueries == 104

\* The values of confidence_metrics['overall_confidence'] a call may reach.
OverallConfidences == {550, 700, 850}

\* The stages of the try block that run before line 98 and raise to the
\* except clause: phase 2 has its own handler; after line 98 come the
\* result dictionary, built from values already computed, and
\* _log_interaction, which has its own handler.
RaisingBeforeMetrics == {"search", "diagnose", "respond", "confidence"}

\* An update that never shortens the lists.
UpdatePerformanceMetricsNoTrim(m, confidence) ==
    [m EXCEPT !.total_queries = @ + 1,
              !.knowledge_base_hits = IF confidence > 700 THEN @ + 1 ELSE @,
              !.response_times = @ + 1,
              !.average_confidence = @ + 1]

\* _update_performance_metrics (lines 381-395).
UpdatePerformanceMetrics(m, confidence) ==
    LET times == m.response_times + 1
        confidences == m.average_confidence + 1
    IN  [m EXCEPT !.total_queries = @ + 1,
                  !.knowledge_base_hits = IF confidence > 700 THEN @ + 1 ELSE @,
                  !.response_times = IF times > 100 THEN 50 ELSE times,
                  !.average_confidence = IF confidences > 100 THEN 50
                                         ELSE confidences]

\* Lines 43-46: __init__; completed counts the calls that returned
\* phase3_result, phase is the phase of the latest result.
InitMetrics ==
    /\ perf = [pc |-> "run", total_queries |-> 0, knowledge_base_hits |-> 0,
               response_times |-> 0, average_confidence |-> 0,
               completed |-> 0, phase |-> None]
    /\ nlu = [pc |-> "idle"]
    /\ qm = [pc |-> "idle"]
    /\ mlpass = [pc |-> "idle"]
    /\ IdleMatcher
    /\ IdleRace
    /\ IdleKb
    /\ IdlePipe

\* Lines 61-142: a call no stage of which raises to the except clause.
ProcessCompleted ==
    /\ perf.pc = "run"
    /\ perf.completed < MaxQueries
    /\ \E confidence \in OverallConfidences :
          perf' = [UpdatePerformanceMetrics(perf, confidence)
                      EXCEPT !.completed = @ + 1,
                             !.phase = "3_knowledge_integrated"]
    /\ UNCHANGED <<matcherVars, raceVars, kbVars, pipe, nlu, qm, mlpass>>

\* Lines 61-97 and 144-145: a stage raises, the call returns _handle_error.
ProcessFallback ==
    /\ perf.pc = "run"
    /\ \E stage \in RaisingBeforeMetrics :
          perf' = [perf EXCEPT !.phase = "3_error_fallback"]
    /\ UNCHANGED <<matcherVars, raceVars, kbVars, pipe, nlu, qm, mlpass>>

NextMetrics ==
    \/ ProcessCompleted
    \/ ProcessFallback

SpecMetrics == InitMetrics /\ [][NextMetrics]_vars

\* C30: after any sequence of process_message_with_knowledge calls on one
\* instance, knowledge_base_hits <= total_queries, total_queries is the
\* number of calls that completed without the error fallback, and
\* response_times and average_confidence hold at most 100 entries each.
CountersConsistent ==
    perf.pc = "run" =>
        /\ perf.knowledge_base_hits <= perf.total_queries
        /\ perf.total_queries = perf.completed
        /\ perf.response_times <= 100
        /\ perf.average_confidence <= 100

\* The 101st completed call has shortened both lists to 50 entries, after
\* calls with and without a hit, and a later call took the error fallback.
ListsShortened ==
    /\ perf.pc = "run"
    /\ perf.completed = 101
    /\ perf.response_times = 50
    /\ perf.average_confidence = 50
    /\ 0 < perf.knowledge_base_hits
    /\ perf.knowledge_base_hits < perf.total_queries
    /\ perf.phase = "3_error_fallback"

-----------------------------------------------------------------------------
(***************************************************************************)
(* MLRecommendationService (ml_recommendation_service.py): the             *)
(* personalized pass of get_enhanced_recommendations (lines 64-130) from   *)
(* _get_candidate_procedures on.  A dictionary is a function on its keys;  *)
(* a text is the set of the lower-cased names it is made of, the empty     *)
(* string the empty set.                                                   *)
(***************************************************************************)
\* dict.get(key, default).
Get(d, key, default) == IF key \in DOMAIN d THEN d[key] ELSE default

EmptyDict == <<>>
EmptyText == {}

\* str.split() on the lower-cased names of the model.
Words(name) ==
    CASE name = "screen damage" -> {"screen", "damage"}
      [] name = "battery" -> {"battery"}
      [] name = "iphone 14" -> {"iphone", "14"}
      [] name = "galaxy s24" -> {"galaxy", "s24"}
      [] name = "" -> {}
      [] OTHER -> {name}

\* `name in text` for a lower-cased name: the empty string is in every
\* text.
InText(name, text) == name = "" \/ name \in text

\* user_skill_levels (lines 55-60).
SkillLevels == {"beginner", "intermediate", "expert", "professional"}

MaxDifficultyOf(skill) ==
    CASE skill = "beginner" -> 2
      [] skill = "intermediate" -> 4
      [] skill = "expert" -> 5
      [] skill = "professional" -> 5

\* user_context: None, or a dictionary whose skill_level is a key of
\* user_skill_levels or another word.
UserContexts == {None} \cup SkillLevels \cup {"novice"}

\* difficulty_level of a repair_procedures row.
Difficulties == 1..5

\* random.uniform(-0.05, 0.05) at line 331.
Variations == {-50, 50}

\* phase3_result['phase2_analysis'] of the two requests and the lexemes of
\* the search text of lines 138-146 (brand, model and category).
MlQueries ==
    {Query(3, "Apple", "iPhone 14", "Smartphone", "Screen Damage", "screen_damage",
           {"screen", "damage", "screen_damage"},
           {"appl", "iphon", "14", "screen", "damag"}, 7875),
     Query(4, "Samsung", "Galaxy S24", "Smartphone", "Battery", "battery_issues",
           {"battery", "battery_issues"},
           {"samsung", "galaxi", "s24", "batteri"}, 7900)}

\* knowledge_base_service.py:341-365: the dictionary _enhance_procedure_results
\* builds for a ranked candidate c of row p; title, description, the steps
\* and the cost are left out.
EnhancedProcedure(c, p, difficulty_level) ==
    [id |-> c.id,
     difficulty_level |-> difficulty_level,
     relevance_score |-> c.relevance_score,
     scoring_breakdown |-> c.scoring_breakdown,
     quality_metrics |-> [quality_score |-> p.quality_score,
                          success_rate |-> p.success_rate,
                          view_count |-> p.view_count]]

\* knowledge_base_service.py:66-103 on a server that answers: the
\* ranked_results, unless the ranking raises.
SearchRankedResults(rows, q, difficulty_level) ==
    LET procedures == Dedup(ExactQuery(rows, q) \o FuzzyQuery(rows, q)
                                \o GenericQuery(rows, q))
        ranked == Limit(RankProcedures(procedures, q), EnhanceLimit)
    IN  IF \E i \in 1..Len(procedures) : ScoreRaises(procedures[i])
        THEN [raised |-> TRUE, ranked_results |-> <<>>]
        ELSE [raised |-> FALSE,
              ranked_results |->
                  [i \in 1..Len(ranked) |->
                      EnhancedProcedure(ranked[i],
                          procedures[FirstAt(procedures, ranked[i].id)].proc,
                          difficulty_level)]]

\* _get_candidate_procedures (lines 132-168): [] when the search raises.
GetCandidateProcedures(rows, q, difficulty_level) ==
    LET results == SearchRankedResults(rows, q, difficulty_level)
    IN  IF results.raised THEN <<>> ELSE results.ranked_results

\* _calculate_model_similarity (lines 339-363), in thousandths.
CalculateModelSimilarity(user_model, proc_models) ==
    IF user_model = "" \/ proc_models = EmptyText THEN 0
    ELSE IF Lower(user_model) \in proc_models THEN 1000
    ELSE LET user_words == Words(Lower(user_model))
             proc_words == UNION {Words(n) : n \in proc_models}
         IN  (Cardinality(user_words \cap proc_words) * 1000)
                 \div Cardinality(user_words)

\* _calculate_device_similarity (lines 222-246), in thousandths.
CalculateDeviceSimilarity(procedure, device_info) ==
    LET proc_device == Get(procedure, "device_compatibility", EmptyDict)
        brand_match == IF InText(Lower(Get(device_info, "brand", "")),
                                 Get(proc_device, "brands", EmptyText))
                       THEN 1000 ELSE 0
        type_match == IF InText(Lower(Get(device_info, "type", "")),
                                Get(proc_device, "device_types", EmptyText))
                      THEN 1000 ELSE 0
        model_similarity == CalculateModelSimilarity(Get(device_info, "model", ""),
                                Get(proc_device, "models", EmptyText))
    IN  (brand_match * 5 + type_match * 3 + model_similarity * 2) \div 10

\* _calculate_problem_similarity (lines 248-269), in thousandths.
CalculateProblemSimilarity(procedure, problem_info) ==
    LET proc_problem == Lower(Get(procedure, "problem_category", ""))
        user_problem == Lower(Get(problem_info, "category", ""))
        proc_keywords == Words(proc_problem)
        user_keywords == Words(user_problem)
    IN  IF proc_problem = user_problem THEN 1000
        ELSE IF proc_keywords # {} /\ user_keywords # {}
        THEN (Cardinality(proc_keywords \cap user_keywords) * 1000)
                 \div Cardinality(proc_keywords \cup user_keywords)
        ELSE 0

\* A difficulty score that takes 0.15 off for each level above the ceiling.
CalculateDifficultyAppropriatenessSteep(procedure, user_context) ==
    IF user_context = None THEN 700
    ELSE LET procedure_difficulty == Get(procedure, "difficulty_level", 3)
             max_difficulty == MaxDifficultyOf(IF user_context \in SkillLevels
                                               THEN user_context ELSE "intermediate")
         IN  IF procedure_difficulty <= max_difficulty
             THEN Max(1000 - ((procedure_difficulty - 1) * 300) \div max_difficulty, 600)
             ELSE Max(300 - (procedure_difficulty - max_difficulty) * 150, 0)

\* _calculate_difficulty_appropriateness (lines 271-294), in thousandths;
\* (d - 1) / max_difficulty * 0.3 is a whole number of thousandths for the
\* ceilings 2, 4 and 5.
CalculateDifficultyAppropriateness(procedure, user_context) ==
    IF user_context = None THEN 700
    ELSE LET procedure_difficulty == Get(procedure, "difficulty_level", 3)
             max_difficulty == MaxDifficultyOf(IF user_context \in SkillLevels
                                               THEN user_context ELSE "intermediate")
         IN  IF procedure_difficulty <= max_difficulty
             THEN Max(1000 - ((procedure_difficulty - 1) * 300) \div max_difficulty, 600)
             ELSE Max(300 - (procedure_difficulty - max_difficulty) * 100, 0)

\* _calculate_user_context_score (lines 296-320) for a context without
\* preferences.
CalculateUserContextScore(procedure, user_context) ==
    IF user_context = None THEN 500
    ELSE Min(500 + (IF user_context \in {"expert", "professional"} THEN 200 ELSE 0),
             1000)

\* _calculate_success_rate_score (lines 322-337).
CalculateSuccessRateScore(procedure, variation) ==
    LET difficulty == Get(procedure, "difficulty_level", 3)
        base_success_rate == Max(950 - (difficulty - 1) * 100, 700)
    IN  Max(Min(base_success_rate + variation, 1000), 0)

\* Lines 180-209: the candidate with its ml_enhancement; ml_score is in
\* ten-thousandths.
MlScored(procedure, device_info, problem_info, user_context, variation) ==
    LET device_score == CalculateDeviceSimilarity(procedure, device_info)
        problem_score == CalculateProblemSimilarity(procedure, problem_info)
        difficulty_score == CalculateDifficultyAppropriateness(procedure, user_context)
        user_score == CalculateUserContextScore(procedure, user_context)
        success_score == CalculateSuccessRateScore(procedure, variation)
        ml_score == device_score * 35 + problem_score * 25 + difficulty_score * 15
                        + user_score * 15 + success_score * 10
    IN  [procedure |-> procedure,
         ml_score |-> (ml_score + 5) \div 10,
         feature_scores |-> [device_similarity |-> device_score,
                             problem_similarity |-> problem_score,
                             difficulty_appropriateness |-> difficulty_score,
                             user_context_match |-> user_score,
                             success_rate |-> success_score]]

\* Line 220: sorted(scored_procedures, key=ml_score, reverse=True).
RECURSIVE SortedByMlScore(_)
SortedByMlScore(scored) ==
    IF scored = <<>> THEN <<>>
    ELSE LET n == Len(scored)
             x == scored[n]
             front == SortedByMlScore(SubSeq(scored, 1, n - 1))
             above == SelectSeq(front, LAMBDA y : y.ml_score >= x.ml_score)
             below == SelectSeq(front, LAMBDA y : y.ml_score < x.ml_score)
         IN  above \o <<x>> \o below

\* _apply_ml_scoring (lines 170-220).
ApplyMlScoring(procedures, device_info, problem_info, user_context, variations) ==
    SortedByMlScore([i \in 1..Len(procedures) |->
        MlScored(procedures[i], device_info, problem_info, user_context,
                 variations[i])])

(***************************************************************************)
(* SpecMl: one personalized pass on a store whose rows all have the        *)
(* difficulty_level drawn for the pass.                                    *)
(***************************************************************************)
MlStores == SUBSET {p \in Catalogue : p.id \in {1, 2, 3, 5, 6}}

InitMl ==
    /\ \E rows \in MlStores, q \in MlQueries, user_context \in UserContexts,
          difficulty_level \in Difficulties :
          mlpass = [pc |-> "candidates", rows |-> rows, query |-> q,
                    user_context |-> user_context,
                    difficulty_level |-> difficulty_level,
                    procedures |-> <<>>, scored |-> <<>>]
    /\ nlu = [pc |-> "idle"]
    /\ qm = [pc |-> "idle"]
    /\ perf = [pc |-> "idle"]
    /\ IdleMatcher
    /\ IdleRace
    /\ IdleKb
    /\ IdlePipe

\* Lines 91-94: the candidates; none ends the pass with the no-results
\* response.
MlGetCandidates ==
    /\ mlpass.pc = "candidates"
    /\ LET procedures == GetCandidateProcedures(mlpass.rows, mlpass.query,
                                                mlpass.difficulty_level)
       IN  mlpass' = [mlpass EXCEPT !.pc = IF procedures = <<>> THEN "no_results"
                                           ELSE "scoring",
                                    !.procedures = procedures]
    /\ UNCHANGED <<matcherVars, raceVars, kbVars, pipe, nlu, qm, perf>>

\* Lines 96-99: the scoring of the candidates.
MlApplyScoring ==
    /\ mlpass.pc = "scoring"
    /\ \E variations \in [1..Len(mlpass.procedures) -> Variations] :
          mlpass' = [mlpass EXCEPT
                        !.pc = "scored",
                        !.scored = ApplyMlScoring(mlpass.procedures,
                                       mlpass.query.device_info,
                                       mlpass.query.problem_info,
                                       mlpass.user_context, variations)]
    /\ UNCHANGED <<matcherVars, raceVars, kbVars, pipe, nlu, qm, perf>>

NextMl ==
    \/ MlGetCandidates
    \/ MlApplyScoring

SpecMl == InitMl /\ [][NextMl]_vars

\* C21: for every skill level with ceiling max_difficulty and every
\* difficulty d in 1..5, the difficulty-appropriateness score is
\* max(0.3 - 0.1 * (d - max_difficulty), 0) when d > max_difficulty, so 0.1
\* for a beginner (ceiling 2) and difficulty 4, and
\* max(1 - (d - 1) / max_difficulty * 0.3, 0.6) when d <= max_difficulty.
DifficultyAppropriatenessFormula ==
    \A i \in 1..Len(mlpass.scored) :
        mlpass.user_context \in SkillLevels =>
            LET d == mlpass.scored[i].procedure.difficulty_level
                ceiling == MaxDifficultyOf(mlpass.user_context)
                score == mlpass.scored[i].feature_scores.difficulty_appropriateness
            IN  /\ d \in 1..5
                /\ d > ceiling => score = Max(300 - 100 * (d - ceiling), 0)
                /\ d <= ceiling => score * ceiling
                                       = Max(1000 * ceiling - (d - 1) * 300, 600 * ceiling)
                /\ (mlpass.user_context = "beginner" /\ d = 4) => score = 100

\* A beginner's pass has scored a procedure of difficulty 4 with 0.1.
BeginnerAboveCeilingScored ==
    /\ mlpass.pc = "scored"
    /\ mlpass.user_context = "beginner"
    /\ \E i \in 1..Len(mlpass.scored) :
          /\ mlpass.scored[i].procedure.difficulty_level = 4
          /\ mlpass.scored[i].feature_scores.difficulty_appropriateness = 100

\* The row of the store a scored candidate comes from.
RowOf(candidate) == CHOOSE p \in mlpass.rows : p.id = candidate.procedure.id

\* C28: every candidate handed from search_procedures to _apply_ml_scoring
\* carries the compatibility and category data the scorer reads, so that a
\* procedure whose compatible brands include the detected brand gets
\* device_similarity >= 0.5 and a procedure whose problem category equals
\* the detected category gets problem_similarity = 1.0.
CandidatesCarryScorerData ==
    /\ \A i \in 1..Len(mlpass.procedures) :
          {"device_compatibility", "problem_category"}
              \subseteq DOMAIN mlpass.procedures[i]
    /\ \A i \in 1..Len(mlpass.scored) :
          LET c == mlpass.scored[i]
              p == RowOf(c)
          IN  /\ mlpass.query.device_info.brand \in p.device_compatibility.brands
                    => c.feature_scores.device_similarity >= 500
              /\ mlpass.query.problem_info.category \in p.problem_categories
                    => c.feature_scores.problem_similarity = 1000

\* Every scored candidate has device_similarity 0 and problem_similarity 0.
ScorerReadsNothing ==
    \A i \in 1..Len(mlpass.scored) :
        /\ mlpass.scored[i].feature_scores.device_similarity = 0
        /\ mlpass.scored[i].feature_scores.problem_similarity = 0
====
